---- MODULE Spec2Model ----
(***************************************************************************)
(* Research workflow of the research assistant                             *)
(* (src/src/mastra/workflows/research-workflow.ts): the three chained      *)
(* steps execute-vector-search -> enhance-external-sources ->              *)
(* generate-research-report and the text heuristics they use; and the      *)
(* indexing script (src/src/mastra/index.ts) that embeds the chunks of a   *)
(* document in batches and upserts them into the index 'papers'.           *)
(*                                                                         *)
(* A text is a sequence of one-character strings, so that split, trim,     *)
(* includes and the regular expressions of the source are computed on      *)
(* characters as JavaScript computes them.                                 *)
(***************************************************************************)
EXTENDS Integers, Sequences, FiniteSets, TLC

VARIABLES
    wfInput,          \* inputData given to the workflow run (researchQuerySchema)
    agentRegistered,  \* whether mastra.getAgent('researchAgent') yields an agent
    pc,               \* position of the run in the .then chain
    stepInput,        \* inputData the engine hands to the step at pc
    agentCalls,       \* prompts sent with agent.stream, in call order
    agentReplies,     \* what agent.stream answered to each of them, in call order
    externalCalls,    \* arguments of every gatherExternalContext call, in call order
    stepRuns,         \* the steps that ran, in order: id, status, inputData, output
    wfResult,         \* result of the run: the report, or the error thrown
    fnText,           \* text given to a parsing function called on its own
    fnResult,         \* what that function returned
    executions,       \* runs of the workflow going on side by side, each with its own state
    request,          \* chat route: the body of the request, as req.json() gives it
    response,         \* chat route: the response, and the agent the request went to
    weatherData,      \* weather tools: what the geocoding and forecast services answer
    toolResult,       \* weather tools: what the tool returned or threw
    docChunks,        \* indexing script: chunks, the chunks of the document
    batchOffset,      \* indexing script: i, the loop variable of the batch loop
    allEmbeddings,    \* indexing script: the embeddings pushed so far
    embedCalls,       \* every embedMany call: the run, the values, whether it resolved
    papers,           \* the index 'papers' of the vector store
    storeCalls,       \* every createIndex and upsert call: the run and the method
    run               \* the number of the current run of the indexing script

chatVars == <<request, response, weatherData, toolResult>>
workflowVars == <<wfInput, agentRegistered, stepInput, agentCalls, agentReplies,
                  externalCalls, executions, chatVars,
                  stepRuns, wfResult, fnText, fnResult>>
indexVars == <<docChunks, batchOffset, allEmbeddings, embedCalls, papers,
               storeCalls, run>>
vars == <<workflowVars, pc, indexVars>>

(***************************************************************************)
(* Characters and JavaScript string primitives                             *)
(***************************************************************************)
UpperCase == <<"A","B","C","D","E","F","G","H","I","J","K","L","M",
               "N","O","P","Q","R","S","T","U","V","W","X","Y","Z">>
LowerCase == <<"a","b","c","d","e","f","g","h","i","j","k","l","m",
               "n","o","p","q","r","s","t","u","v","w","x","y","z">>
Digits == <<"0","1","2","3","4","5","6","7","8","9">>

Range(f) == {f[i] : i \in DOMAIN f}
UpperCaseChars == Range(UpperCase)
DigitChars == Range(Digits)

\* \s of a JavaScript regular expression, and what String.prototype.trim removes
WhiteSpace == {" ", "\t", "\n", "\r"}
\* what . of a regular expression does not match
LineTerminators == {"\n", "\r"}
\* \w
WordChars == UpperCaseChars \cup Range(LowerCase) \cup DigitChars \cup {"_"}
\* [\-\*•]; the bullet U+2022 is written "U+2022"
BulletChars == {"-", "*", "U+2022"}
\* [:\-]
LabelSeparators == {":", "-"}

Min(a, b) == IF a <= b THEN a ELSE b

\* String.prototype.toLowerCase, one character
toLowerCaseChar(c) ==
    IF c \in UpperCaseChars
    THEN LowerCase[CHOOSE i \in DOMAIN UpperCase : UpperCase[i] = c]
    ELSE c

toLowerCase(s) == [i \in 1..Len(s) |-> toLowerCaseChar(s[i])]

\* s.substring(from - 1, to) with 1-based inclusive positions
Slice(s, from, to) == IF from > to THEN <<>> ELSE SubSeq(s, from, to)

\* String.prototype.trim
trim(s) ==
    IF \A i \in 1..Len(s) : s[i] \in WhiteSpace THEN <<>>
    ELSE Slice(s,
               CHOOSE i \in 1..Len(s) :
                  s[i] \notin WhiteSpace /\ \A j \in 1..(i - 1) : s[j] \in WhiteSpace,
               CHOOSE i \in 1..Len(s) :
                  s[i] \notin WhiteSpace /\ \A j \in (i + 1)..Len(s) : s[j] \in WhiteSpace)

\* the literal sub starts at position i of s
StartsAt(s, sub, i) ==
    /\ i >= 1
    /\ i + Len(sub) - 1 <= Len(s)
    /\ \A k \in 1..Len(sub) : s[i + k - 1] = sub[k]

\* String.prototype.includes
includes(s, sub) == \E i \in 1..(Len(s) + 1) : StartsAt(s, sub, i)

\* the elements of a set of integers in increasing order
Ascending(S) ==
    [k \in 1..Cardinality(S) |->
        CHOOSE i \in S : Cardinality({j \in S : j < i}) = k - 1]

\* s.split(c) for a one-character separator c: never empty
splitChar(s, c) ==
    LET cuts == Ascending({i \in 1..Len(s) : s[i] = c})
        n == Len(cuts)
        from(k) == IF k = 1 THEN 1 ELSE cuts[k - 1] + 1
        to(k) == IF k = n + 1 THEN Len(s) ELSE cuts[k] - 1
    IN  [k \in 1..(n + 1) |-> Slice(s, from(k), to(k))]

\* s.split(/\s+/).filter(w => w.length > 0): the maximal runs without white space
Words(s) ==
    LET starts == Ascending({i \in 1..Len(s) :
                      /\ s[i] \notin WhiteSpace
                      /\ (i = 1 \/ s[i - 1] \in WhiteSpace)})
        endOf(i) == CHOOSE e \in i..Len(s) :
                      /\ (e = Len(s) \/ s[e + 1] \in WhiteSpace)
                      /\ \A j \in i..e : s[j] \notin WhiteSpace
    IN  [k \in 1..Len(starts) |-> Slice(s, starts[k], endOf(starts[k]))]

\* Array.prototype.join
RECURSIVE join(_, _)
join(parts, sep) ==
    IF Len(parts) = 0 THEN <<>>
    ELSE IF Len(parts) = 1 THEN parts[1]
    ELSE parts[1] \o sep \o join(Tail(parts), sep)

\* the loop with text = chunk for text += chunk: the last chunk of the stream
DrainKeepsLast(stream) == IF Len(stream) = 0 THEN <<>> ELSE stream[Len(stream)]

\* concatenation of the chunks of a text stream, in arrival order
RECURSIVE Drain(_)
Drain(stream) ==
    IF Len(stream) = 0 THEN <<>> ELSE stream[1] \o Drain(Tail(stream))

(***************************************************************************)
(* extractSearchTerms and extractChunksFromResponse                        *)
(***************************************************************************)
MarkerScore == <<8, 10>>
FallbackScore == <<7, 10>>

SourceMarker == <<"s","o","u","r","c","e",":">>
SourceMarkerCapital == <<"S","o","u","r","c","e",":">>
UnknownSource == <<"U","n","k","n","o","w","n">>
FallbackSource == <<"R","e","s","e","a","r","c","h"," ","A","g","e","n","t"," ",
                    "A","n","a","l","y","s","i","s">>
CommaSpace == <<",", " ">>

IsWordOrSpace(c) == c \in WordChars \/ c \in WhiteSpace
IsTerm(w) == Len(w) > 2

extractSearchTerms(query) ==
    LET stripped == SelectSeq(toLowerCase(query), IsWordOrSpace)
        terms == SelectSeq(Words(stripped), IsTerm)
    IN  Slice(terms, 1, Min(10, Len(terms)))

\* the loop body for line i of lines: the chunk pushed, if any
MarkerChunk(lines, i) ==
    LET line == trim(lines[i])
        parts == splitChar(line, ":")
        named == IF Len(parts) >= 2 THEN trim(parts[2]) ELSE <<>>
        source == IF named # <<>> THEN named ELSE UnknownSource
        text == IF i + 1 <= Len(lines) THEN trim(lines[i + 1]) ELSE <<>>
    IN  IF (includes(line, SourceMarker) \/ includes(line, SourceMarkerCapital))
           /\ text # <<>>
        THEN << [text |-> text, source |-> source,
                 excerptKeywords |-> join(extractSearchTerms(text), CommaSpace),
                 score |-> MarkerScore] >>
        ELSE <<>>

RECURSIVE MarkerChunks(_, _)
MarkerChunks(lines, i) ==
    IF i > Len(lines) THEN <<>>
    ELSE MarkerChunk(lines, i) \o MarkerChunks(lines, i + 1)

\* FallbackChunk that keeps the whole response
FallbackChunkWhole(responseText) ==
    [text |-> responseText,
     source |-> FallbackSource,
     excerptKeywords |->
        LET terms == extractSearchTerms(responseText)
        IN  join(Slice(terms, 1, Min(5, Len(terms))), CommaSpace),
     score |-> FallbackScore]

FallbackChunk(responseText) ==
    [text |-> Slice(responseText, 1, Min(500, Len(responseText))),
     source |-> FallbackSource,
     excerptKeywords |->
        LET terms == extractSearchTerms(responseText)
        IN  join(Slice(terms, 1, Min(5, Len(terms))), CommaSpace),
     score |-> FallbackScore]

\* extractChunksFromResponse without its fallback
extractChunksWithoutFallback(responseText) ==
    MarkerChunks(splitChar(responseText, "\n"), 1)

extractChunksFromResponse(responseText) ==
    LET chunks == MarkerChunks(splitChar(responseText, "\n"), 1)
    IN  IF Len(chunks) = 0 THEN << FallbackChunk(responseText) >> ELSE chunks

(***************************************************************************)
(* Numbers: parseFloat of a digit string is the fraction <<n, d>> = n / d   *)
(***************************************************************************)
RatLess(a, b) == a[1] * b[2] < b[1] * a[2]
RatEq(a, b) == a[1] * b[2] = b[1] * a[2]
\* Math.max and Math.min
RatMax(a, b) == IF RatLess(a, b) THEN b ELSE a
RatMin(a, b) == IF RatLess(b, a) THEN b ELSE a
Zero == <<0, 1>>
One == <<1, 1>>

DigitValue(c) == (CHOOSE i \in DOMAIN Digits : Digits[i] = c) - 1

RECURSIVE DigitsValue(_)
DigitsValue(ds) ==
    IF Len(ds) = 0 THEN 0
    ELSE 10 * DigitsValue(Slice(ds, 1, Len(ds) - 1)) + DigitValue(ds[Len(ds)])

RECURSIVE Pow10(_)
Pow10(n) == IF n = 0 THEN 1 ELSE 10 * Pow10(n - 1)

\* parseFloat of whole "." frac (frac possibly empty)
parseFloat(whole, frac) ==
    << DigitsValue(whole) * Pow10(Len(frac)) + DigitsValue(frac), Pow10(Len(frac)) >>

(***************************************************************************)
(* Pieces of the regular expressions of parseAnalysisResponse              *)
(***************************************************************************)
\* \s* taken greedily from position q: the position after the run
WsRunEnd(s, q) ==
    CHOOSE r \in q..(Len(s) + 1) :
        /\ \A j \in q..(r - 1) : s[j] \in WhiteSpace
        /\ (r = Len(s) + 1 \/ s[r] \notin WhiteSpace)

\* \d* taken greedily from position q: the position after the run
DigitRunEnd(s, q) ==
    CHOOSE r \in q..(Len(s) + 1) :
        /\ \A j \in q..(r - 1) : s[j] \in DigitChars
        /\ (r = Len(s) + 1 \/ s[r] \notin DigitChars)

\* .+ or .+? starting at r and followed by (?:\n|$): the last position of the
\* group, or 0 when this does not match. Both forms end at the end of the run
\* of characters other than line terminators, which "\n" or the end must follow.
LineMatchEnd(s, r) ==
    IF r > Len(s) \/ s[r] \in LineTerminators THEN 0
    ELSE LET e == CHOOSE e \in r..Len(s) :
                    /\ \A j \in r..e : s[j] \notin LineTerminators
                    /\ (e = Len(s) \/ s[e + 1] \in LineTerminators)
         IN  IF e = Len(s) \/ s[e + 1] = "\n" THEN e ELSE 0

\* \s*(.+?)(?:\n|$) from position q: where the group starts with \s* as long
\* as it can be, or 0
LazyLineStart(s, q) ==
    LET ok == {r \in q..WsRunEnd(s, q) : LineMatchEnd(s, r) # 0}
    IN  IF ok = {} THEN 0 ELSE CHOOSE r \in ok : \A x \in ok : r >= x

\* [:\-]? then the rest of the pattern: the separator is taken first (taken is
\* where the rest then matches, from q + 1) and given up if the rest fails
\* there (skipped is where it matches from q)
AfterSeparator(s, q, taken, skipped) ==
    IF q <= Len(s) /\ s[q] \in LabelSeparators /\ taken # 0
    THEN taken
    ELSE skipped

\* the positions where the literal (lower case) occurs in s without regard to case
Occurrences(s, literal) ==
    LET low == toLowerCase(s)
    IN  {p \in 1..Len(s) : StartsAt(low, literal, p)}

ThoughtMarker == <<"t","h","o","u","g","h","t"," ","p","r","o","c","e","s","s",":">>
AnswerMarker == <<"f","i","n","a","l"," ","a","n","s","w","e","r",":">>
SummaryLabel == <<"s","u","m","m","a","r","y">>
KeyFindingLabel == <<"k","e","y"," ","f","i","n","d","i","n","g">>
FindingLabel == <<"f","i","n","d","i","n","g">>
InsightLabel == <<"i","n","s","i","g","h","t">>
ConfidenceLabel == <<"c","o","n","f","i","d","e","n","c","e">>
FallbackSummary ==
    <<"A","n","a","l","y","s","i","s"," ","c","o","m","p","l","e","t","e","d"," ",
      "b","a","s","e","d"," ","o","n"," ","a","v","a","i","l","a","b","l","e"," ",
      "s","o","u","r","c","e","s",".">>
PlaceholderFinding ==
    <<"A","n","a","l","y","s","i","s"," ","f","i","n","d","i","n","g","s"," ",
      "c","o","m","p","i","l","e","d"," ","f","r","o","m"," ","a","v","a","i","l",
      "a","b","l","e"," ","s","o","u","r","c","e","s",".">>
\* a default other than 0.8
DefaultConfidenceHalf == <<5, 10>>
DefaultConfidence == <<8, 10>>

\* responseText.split(/(?:THOUGHT PROCESS:|FINAL ANSWER:)/i)[k]?.trim() || responseText
\* (the two markers cannot overlap, so every occurrence is a split point)
SectionOrText(responseText, k) ==
    LET thought == Occurrences(responseText, ThoughtMarker)
        cuts == Ascending(thought \cup Occurrences(responseText, AnswerMarker))
        after(p) == p + (IF p \in thought THEN Len(ThoughtMarker) ELSE Len(AnswerMarker))
        section == trim(Slice(responseText, after(cuts[k]),
                              IF Len(cuts) > k THEN cuts[k + 1] - 1
                              ELSE Len(responseText)))
    IN  IF Len(cuts) >= k /\ section # <<>> THEN section ELSE responseText

\* ExtractSummary without its fallback string
ExtractSummaryNoFallback(finalAnswer) ==
    LET groupStart(p) == AfterSeparator(finalAnswer, p + Len(SummaryLabel), LazyLineStart(finalAnswer, p + Len(SummaryLabel) + 1), LazyLineStart(finalAnswer, p + Len(SummaryLabel)))
        hits == {p \in Occurrences(finalAnswer, SummaryLabel) : groupStart(p) # 0}
        first == CHOOSE p \in hits : \A x \in hits : p <= x
    IN  IF hits = {} THEN <<>>
        ELSE trim(Slice(finalAnswer, groupStart(first),
                        LineMatchEnd(finalAnswer, groupStart(first))))

\* finalAnswer.match(/summary[:\-]?\s*(.+?)(?:\n|$)/i)?.[1]?.trim() || fallback
ExtractSummary(finalAnswer) ==
    LET groupStart(p) == AfterSeparator(finalAnswer, p + Len(SummaryLabel), LazyLineStart(finalAnswer, p + Len(SummaryLabel) + 1), LazyLineStart(finalAnswer, p + Len(SummaryLabel)))
        hits == {p \in Occurrences(finalAnswer, SummaryLabel) : groupStart(p) # 0}
        first == CHOOSE p \in hits : \A x \in hits : p <= x
        group == trim(Slice(finalAnswer, groupStart(first),
                            LineMatchEnd(finalAnswer, groupStart(first))))
    IN  IF hits # {} /\ group # <<>> THEN group ELSE FallbackSummary

\* [\-\*•]\s*.+(?:\n|$) with its bullet at b: the position after the item, or 0
ItemNext(s, b) ==
    IF b > Len(s) \/ s[b] \notin BulletChars THEN 0
    ELSE LET ok == {r \in (b + 1)..WsRunEnd(s, b + 1) : LineMatchEnd(s, r) # 0}
             r == CHOOSE r \in ok : \A x \in ok : r >= x
             e == LineMatchEnd(s, r)
         IN  IF ok = {} THEN 0 ELSE IF e < Len(s) THEN e + 2 ELSE e + 1

\* (?:item)+ with the first bullet at b (ItemNext(s, b) # 0): the position after it
RECURSIVE ItemsNext(_, _)
ItemsNext(s, b) ==
    LET next == ItemNext(s, b)
    IN  IF ItemNext(s, next) # 0 THEN ItemsNext(s, next) ELSE next

\* \s*((?:item)+) from position q: the position of the first bullet, or 0
BulletListStart(s, q) ==
    LET b == WsRunEnd(s, q) IN IF ItemNext(s, b) # 0 THEN b ELSE 0

\* (?:key findings?|findings?|insights?)[:\-]?\s*((?:...)+) tried at position p:
\* the position of the group, or 0
FindingsGroupStart(s, p) ==
    LET low == toLowerCase(s)
        label == IF StartsAt(low, KeyFindingLabel, p) THEN KeyFindingLabel
                 ELSE IF StartsAt(low, FindingLabel, p) THEN FindingLabel
                 ELSE IF StartsAt(low, InsightLabel, p) THEN InsightLabel
                 ELSE <<>>
        q == p + Len(label)
        plural == q <= Len(s) /\ low[q] = "s"
    IN  IF label = <<>> THEN 0
        ELSE IF plural /\ AfterSeparator(s, q + 1, BulletListStart(s, q + 2), BulletListStart(s, q + 1)) # 0
             THEN AfterSeparator(s, q + 1, BulletListStart(s, q + 2), BulletListStart(s, q + 1))
        ELSE AfterSeparator(s, q, BulletListStart(s, q + 1), BulletListStart(s, q))

\* line.replace(/^[\-\*•]\s*/, '').trim()
StripBullet(line) ==
    trim(IF Len(line) > 0 /\ line[1] \in BulletChars
         THEN Slice(line, WsRunEnd(line, 2), Len(line))
         ELSE line)

NonEmpty(line) == Len(line) > 0

\* findingsMatches?.[1]?.split('\n').map(...).filter(...) || [placeholder]
ExtractKeyFindings(finalAnswer) ==
    LET hits == {p \in 1..Len(finalAnswer) : FindingsGroupStart(finalAnswer, p) # 0}
        first == CHOOSE p \in hits : \A x \in hits : p <= x
        b == FindingsGroupStart(finalAnswer, first)
        group == Slice(finalAnswer, b, ItemsNext(finalAnswer, b) - 1)
        lines == splitChar(group, "\n")
    IN  IF hits = {} THEN << PlaceholderFinding >>
        ELSE SelectSeq([k \in 1..Len(lines) |-> StripBullet(lines[k])], NonEmpty)

\* \s*(\d*\.?\d+) from position q: the position of the number, or 0
NumberStart(s, q) ==
    LET r == WsRunEnd(s, q)
        d == DigitRunEnd(s, r)
    IN  IF d > r \/ (d <= Len(s) /\ s[d] = "." /\ DigitRunEnd(s, d + 1) > d + 1)
        THEN r ELSE 0

\* parseFloat of the group (\d*\.?\d+) that starts at r
NumberValue(s, r) ==
    LET d == DigitRunEnd(s, r)
        f == IF d <= Len(s) /\ s[d] = "." THEN DigitRunEnd(s, d + 1) ELSE d + 1
    IN  IF f > d + 1
        THEN parseFloat(Slice(s, r, d - 1), Slice(s, d + 1, f - 1))
        ELSE parseFloat(Slice(s, r, d - 1), <<>>)

\* confidenceMatch ? parseFloat(confidenceMatch[1]) : 0.8
ExtractConfidence(finalAnswer) ==
    LET numberAt(p) == AfterSeparator(finalAnswer, p + Len(ConfidenceLabel), NumberStart(finalAnswer, p + Len(ConfidenceLabel) + 1), NumberStart(finalAnswer, p + Len(ConfidenceLabel)))
        hits == {p \in Occurrences(finalAnswer, ConfidenceLabel) : numberAt(p) # 0}
        first == CHOOSE p \in hits : \A x \in hits : p <= x
    IN  IF hits = {} THEN DefaultConfidence
        ELSE NumberValue(finalAnswer, numberAt(first))

\* ClampConfidence without its upper limit
ClampConfidenceBelowOnly(confidence) == RatMax(confidence, Zero)

\* Math.min(Math.max(confidence, 0), 1)
ClampConfidence(confidence) == RatMin(RatMax(confidence, Zero), One)

parseAnalysisResponse(responseText) ==
    LET thoughtProcess == SectionOrText(responseText, 1)
        finalAnswer == SectionOrText(responseText, 2)
    IN  [summary |-> ExtractSummary(finalAnswer),
         keyFindings |-> ExtractKeyFindings(finalAnswer),
         thoughtProcess |-> thoughtProcess,
         confidence |-> ClampConfidence(ExtractConfidence(finalAnswer))]

(***************************************************************************)
(* gatherExternalContext, buildAnalysisPrompt, generateRecommendations     *)
(***************************************************************************)
ExternalDatabaseSource ==
    <<"E","x","t","e","r","n","a","l"," ","A","c","a","d","e","m","i","c"," ",
      "D","a","t","a","b","a","s","e">>
WebSearchSource ==
    <<"W","e","b"," ","S","e","a","r","c","h"," ","R","e","s","u","l","t","s">>
RelatedResearchOn ==
    <<"R","e","l","a","t","e","d"," ","r","e","s","e","a","r","c","h"," ","o","n"," ">>
SuggestsContext ==
    <<" ","s","u","g","g","e","s","t","s"," ","a","d","d","i","t","i","o","n","a","l",
      " ","c","o","n","t","e","x","t"," ","i","s"," ","a","v","a","i","l","a","b","l",
      "e",".">>
RecentDevelopmentsIn ==
    <<"R","e","c","e","n","t"," ","d","e","v","e","l","o","p","m","e","n","t","s"," ",
      "i","n"," ">>
ProvideInformation ==
    <<" ","p","r","o","v","i","d","e"," ","s","u","p","p","l","e","m","e","n","t","a",
      "r","y"," ","i","n","f","o","r","m","a","t","i","o","n",".">>

gatherExternalContext(query, searchTerms) ==
    << [source |-> ExternalDatabaseSource,
        content |-> RelatedResearchOn \o query \o SuggestsContext,
        relevance |-> <<75, 100>>],
       [source |-> WebSearchSource,
        content |-> RecentDevelopmentsIn \o join(searchTerms, CommaSpace)
                        \o ProvideInformation,
        relevance |-> <<65, 100>>] >>

SourcePrefix == <<"S","o","u","r","c","e",":"," ">>
ContentPrefix == <<"\n","C","o","n","t","e","n","t",":"," ">>
KeywordsPrefix == <<"\n","K","e","y","w","o","r","d","s",":"," ">>
BlankLine == <<"\n", "\n">>

\* the template of buildAnalysisPrompt, as the values of its interpolations:
\* relevance is left as the number it prints
buildAnalysisPrompt(query, vectorChunks, externalContext, analysisDepth) ==
    [template |-> "analysis",
     query |-> query,
     analysisDepth |-> analysisDepth,
     vectorContent |->
        join([k \in 1..Len(vectorChunks) |->
                SourcePrefix \o vectorChunks[k].source
                  \o ContentPrefix \o vectorChunks[k].text
                  \o KeywordsPrefix \o vectorChunks[k].excerptKeywords], BlankLine),
     externalContent |->
        [k \in 1..Len(externalContext) |->
            [source |-> externalContext[k].source,
             content |-> externalContext[k].content,
             relevance |-> externalContext[k].relevance]]]

\* the prompt of step 1
ResearchPrompt(query, topK) == [template |-> "research", query |-> query, topK |-> topK]

RecommendGather ==
    <<"C","o","n","s","i","d","e","r"," ","g","a","t","h","e","r","i","n","g"," ",
      "a","d","d","i","t","i","o","n","a","l"," ","s","o","u","r","c","e","s"," ",
      "t","o"," ","i","m","p","r","o","v","e"," ","c","o","n","f","i","d","e","n",
      "c","e"," ","i","n"," ","f","i","n","d","i","n","g","s">>
RecommendDiversify ==
    <<"E","x","p","a","n","d"," ","r","e","s","e","a","r","c","h"," ","t","o"," ",
      "i","n","c","l","u","d","e"," ","m","o","r","e"," ","d","i","v","e","r","s",
      "e"," ","s","o","u","r","c","e","s"," ","f","o","r"," ","c","o","m","p","r",
      "e","h","e","n","s","i","v","e"," ","c","o","v","e","r","a","g","e">>
RecommendValidate ==
    <<"V","a","l","i","d","a","t","e"," ","f","i","n","d","i","n","g","s"," ","w",
      "i","t","h"," ","p","r","i","m","a","r","y"," ","r","e","s","e","a","r","c",
      "h"," ","p","u","b","l","i","c","a","t","i","o","n","s"," ","w","h","e","n",
      " ","a","v","a","i","l","a","b","l","e">>
RecommendRecent ==
    <<"C","o","n","s","i","d","e","r"," ","r","e","c","e","n","t"," ","d","e","v",
      "e","l","o","p","m","e","n","t","s"," ","a","n","d"," ","o","n","g","o","i",
      "n","g"," ","r","e","s","e","a","r","c","h"," ","i","n"," ","t","h","i","s",
      " ","f","i","e","l","d">>
RecommendExternal ==
    <<"E","n","a","b","l","e"," ","e","x","t","e","r","n","a","l"," ","s","o","u",
      "r","c","e","s"," ","f","o","r"," ","b","r","o","a","d","e","r"," ","r","e",
      "s","e","a","r","c","h"," ","c","o","v","e","r","a","g","e">>

\* [...chunks.map(c => c.source), ...externalContext.map(c => c.source)]
AllSources(vectorChunks, externalContext) ==
    [k \in 1..Len(vectorChunks) |-> vectorChunks[k].source]
      \o [k \in 1..Len(externalContext) |-> externalContext[k].source]

\* generateRecommendations with the general recommendations pushed only when no
\* rule before them fired
generateRecommendationsGeneralElse(analysis, vectorChunks, externalContext) ==
    LET uniqueSources == Range(AllSources(vectorChunks, externalContext))
        low == RatLess(analysis.confidence, <<7, 10>>)
        few == Cardinality(uniqueSources) < 3
    IN  (IF low THEN << RecommendGather >> ELSE <<>>)
          \o (IF few THEN << RecommendDiversify >> ELSE <<>>)
          \o (IF low \/ few THEN <<>> ELSE << RecommendValidate, RecommendRecent >>)
          \o (IF Len(externalContext) = 0 THEN << RecommendExternal >> ELSE <<>>)

\* generateRecommendations with confidence <= 0.7 as the test
generateRecommendationsAtMost(analysis, vectorChunks, externalContext) ==
    LET uniqueSources == Range(AllSources(vectorChunks, externalContext))
    IN  (IF ~RatLess(<<7, 10>>, analysis.confidence) THEN << RecommendGather >> ELSE <<>>)
          \o (IF Cardinality(uniqueSources) < 3 THEN << RecommendDiversify >> ELSE <<>>)
          \o << RecommendValidate, RecommendRecent >>
          \o (IF Len(externalContext) = 0 THEN << RecommendExternal >> ELSE <<>>)

\* generateRecommendations without the rule on an empty external context
generateRecommendationsNoExternalRule(analysis, vectorChunks, externalContext) ==
    LET uniqueSources == Range(AllSources(vectorChunks, externalContext))
    IN  (IF RatLess(analysis.confidence, <<7, 10>>) THEN << RecommendGather >> ELSE <<>>)
          \o (IF Cardinality(uniqueSources) < 3 THEN << RecommendDiversify >> ELSE <<>>)
          \o << RecommendValidate, RecommendRecent >>

generateRecommendations(analysis, vectorChunks, externalContext) ==
    LET uniqueSources == Range(AllSources(vectorChunks, externalContext))
    IN  (IF RatLess(analysis.confidence, <<7, 10>>) THEN << RecommendGather >> ELSE <<>>)
          \o (IF Cardinality(uniqueSources) < 3 THEN << RecommendDiversify >> ELSE <<>>)
          \o << RecommendValidate, RecommendRecent >>
          \o (IF Len(externalContext) = 0 THEN << RecommendExternal >> ELSE <<>>)

\* the sources as they were compiled, duplicates kept
DeduplicateNothing(sources) == sources

\* [...new Set(sources)]: the first occurrence of each element, in order
Deduplicate(sources) ==
    LET firsts == Ascending({i \in 1..Len(sources) :
                      \A j \in 1..(i - 1) : sources[j] # sources[i]})
    IN  [k \in 1..Len(firsts) |-> sources[firsts[k]]]

(***************************************************************************)
(* The steps                                                               *)
(***************************************************************************)
\* inputData that is undefined
NoInputData == [undefined |-> TRUE]
IsUndefined(inputData) == DOMAIN inputData = {"undefined"}

\* inputData[field] ? ... : ... for a field the value may lack
Truthy(inputData, field) == field \in DOMAIN inputData /\ inputData[field] = TRUE
\* `${inputData[field]}` for a field the value may lack
Interpolated(inputData, field) ==
    IF field \in DOMAIN inputData THEN inputData[field] ELSE "undefined"

\* what an execute does: it returns a value or throws, having made these calls
Returned(value, prompts, fetches) ==
    [status |-> "success", value |-> value, prompts |-> prompts, fetches |-> fetches]
Thrown(message, prompts) ==
    [status |-> "failed", value |-> message, prompts |-> prompts, fetches |-> <<>>]

\* a reply of agent.stream: the chunks of its textStream, or a rejection
Streamed(stream) == [ok |-> TRUE, stream |-> stream]
Rejected == [ok |-> FALSE, stream |-> <<>>]

\* executeVectorSearch that passes the query on in lower case
executeVectorSearchLowerCase(inputData, agent, reply) ==
    IF IsUndefined(inputData) THEN Thrown("Research query input not found", <<>>)
    ELSE IF ~agent THEN Thrown("Research agent not found", <<>>)
    ELSE LET prompt == ResearchPrompt(inputData.query, inputData.topK)
         IN  IF ~reply.ok THEN Thrown("agent.stream rejected", << prompt >>)
             ELSE Returned([chunks |-> extractChunksFromResponse(Drain(reply.stream)),
                            query |-> toLowerCase(inputData.query),
                            topK |-> inputData.topK],
                           << prompt >>, <<>>)

\* executeVectorSearch that looks the agent up only after building the call
executeVectorSearchLateCheck(inputData, agent, reply) ==
    IF IsUndefined(inputData) THEN Thrown("Research query input not found", <<>>)
    ELSE LET prompt == ResearchPrompt(inputData.query, inputData.topK)
         IN  IF ~agent \/ ~reply.ok THEN Thrown("agent.stream rejected", << prompt >>)
             ELSE Returned([chunks |-> extractChunksFromResponse(Drain(reply.stream)),
                            query |-> inputData.query,
                            topK |-> inputData.topK],
                           << prompt >>, <<>>)

executeVectorSearch(inputData, agent, reply) ==
    IF IsUndefined(inputData) THEN Thrown("Research query input not found", <<>>)
    ELSE IF ~agent THEN Thrown("Research agent not found", <<>>)
    ELSE LET prompt == ResearchPrompt(inputData.query, inputData.topK)
         IN  IF ~reply.ok THEN Thrown("agent.stream rejected", << prompt >>)
             ELSE Returned([chunks |-> extractChunksFromResponse(Drain(reply.stream)),
                            query |-> inputData.query,
                            topK |-> inputData.topK],
                           << prompt >>, <<>>)

\* enhanceWithExternalSources that gathers whatever the flag is
enhanceAlwaysExternal(inputData) ==
    IF IsUndefined(inputData) THEN Thrown("Vector search results not found", <<>>)
    ELSE LET searchTerms == extractSearchTerms(inputData.query)
         IN  Returned([vectorResults |-> inputData,
                       externalContext |->
                          gatherExternalContext(inputData.query, searchTerms),
                       searchTerms |-> searchTerms],
                      <<>>,
                      << [query |-> inputData.query, searchTerms |-> searchTerms] >>)

enhanceWithExternalSources(inputData) ==
    IF IsUndefined(inputData) THEN Thrown("Vector search results not found", <<>>)
    ELSE LET searchTerms == extractSearchTerms(inputData.query)
             external == Truthy(inputData, "includeExternalSources")
         IN  Returned([vectorResults |-> inputData,
                       externalContext |->
                          IF external
                          THEN gatherExternalContext(inputData.query, searchTerms)
                          ELSE <<>>,
                       searchTerms |-> searchTerms],
                      <<>>,
                      IF external
                      THEN << [query |-> inputData.query, searchTerms |-> searchTerms] >>
                      ELSE <<>>)

generateResearchReport(inputData, agent, reply, now) ==
    IF IsUndefined(inputData) THEN Thrown("Enhanced results not found", <<>>)
    ELSE IF ~agent THEN Thrown("Research agent not found", <<>>)
    ELSE LET chunks == inputData.vectorResults.chunks
             analysisPrompt ==
                buildAnalysisPrompt(inputData.vectorResults.query, chunks,
                                    inputData.externalContext,
                                    Interpolated(inputData, "analysisDepth"))
             analysis == parseAnalysisResponse(Drain(reply.stream))
         IN  IF ~reply.ok THEN Thrown("agent.stream rejected", << analysisPrompt >>)
             ELSE Returned(
                    [query |-> inputData.vectorResults.query,
                     summary |-> analysis.summary,
                     keyFindings |-> analysis.keyFindings,
                     thoughtProcess |-> analysis.thoughtProcess,
                     sources |-> Deduplicate(AllSources(chunks, inputData.externalContext)),
                     confidence |-> analysis.confidence,
                     recommendations |->
                        generateRecommendations(analysis, chunks, inputData.externalContext),
                     executedAt |-> now],
                    << analysisPrompt >>, <<>>)

(***************************************************************************)
(* researchWorkflow: createWorkflow(...).then(...).then(...).then(...)     *)
(* The engine hands each step the value the step before it returned (the   *)
(* first step gets the input of the run) and does not check it against the *)
(* step's inputSchema; it stops at the first step that throws.             *)
(***************************************************************************)
researchWorkflow ==
    << "execute-vector-search", "enhance-external-sources", "generate-research-report" >>

\* the fields each step declares in its inputSchema
StepInputFields(id) ==
    IF id = "execute-vector-search"
    THEN {"query", "topK", "includeExternalSources", "analysisDepth"}
    ELSE IF id = "enhance-external-sources"
    THEN {"chunks", "query", "topK", "includeExternalSources", "analysisDepth"}
    ELSE {"vectorResults", "externalContext", "searchTerms", "analysisDepth"}

\* StepAfter with the chain closed into a loop
StepAfterLooping(id) ==
    LET k == CHOOSE i \in DOMAIN researchWorkflow : researchWorkflow[i] = id
    IN  researchWorkflow[(k % Len(researchWorkflow)) + 1]

\* what follows the step id in the chain
StepAfter(id) ==
    LET k == CHOOSE i \in DOMAIN researchWorkflow : researchWorkflow[i] = id
    IN  IF k < Len(researchWorkflow) THEN researchWorkflow[k + 1] ELSE "success"

\* the answers to the agent calls of an outcome: the reply, if the call was made
Answers(outcome, reply) == IF outcome.prompts = <<>> THEN <<>> ELSE << reply >>

\* the engine after the step at pc ended with outcome
Advance(outcome) ==
    /\ stepRuns' = Append(stepRuns, [id |-> pc, status |-> outcome.status,
                                      input |-> stepInput, output |-> outcome.value])
    /\ agentCalls' = agentCalls \o outcome.prompts
    /\ externalCalls' = externalCalls \o outcome.fetches
    /\ IF outcome.status = "failed"
       THEN /\ pc' = "failed"
            /\ wfResult' = [status |-> "failed", error |-> outcome.value]
            /\ UNCHANGED stepInput
       ELSE IF StepAfter(pc) = "success"
       THEN /\ pc' = "success"
            /\ wfResult' = [status |-> "success", result |-> outcome.value]
            /\ UNCHANGED stepInput
       ELSE /\ pc' = StepAfter(pc)
            /\ stepInput' = outcome.value
            /\ UNCHANGED wfResult
    /\ UNCHANGED <<wfInput, agentRegistered, fnText, fnResult, executions, chatVars,
                   indexVars>>

(***************************************************************************)
(* Inputs                                                                  *)
(***************************************************************************)
Queries ==
    { <<>>,
      <<"A","I">>,
      <<"W","h","a","t"," ","i","s"," ","s","e","l","f","-","a","t","t","e","n",
        "t","i","o","n","?">> }
TopKs == {3, 5}
AnalysisDepths == {"basic", "detailed", "comprehensive"}
WorkflowInputs ==
    [query : Queries, topK : TopKs, includeExternalSources : BOOLEAN,
     analysisDepth : AnalysisDepths]
Timestamps == {"2025-07-29T10:00:00.000Z", "2025-07-29T10:00:01.000Z"}

\* a reply longer than the 500 characters the fallback chunk keeps
LongReply == [i \in 1..501 |-> IF i = 501 THEN "z" ELSE "x"]

\* text streams of the agent in step 1
SearchStreams ==
    { << <<"S","o","u","r","c","e",":"," ","p","a","p","e","r",".","p","d","f",
          "\n">>,
        <<"A","t","t","e","n","t","i","o","n"," ","i","s"," ","a","l","l"," ","y",
          "o","u"," ","n","e","e","d">> >>,
      << <<"N","o"," ","r","e","l","e","v","a","n","t"," ">>,
        <<"i","n","f","o","r","m","a","t","i","o","n"," ","f","o","u","n","d">> >>,
      <<>>,
      << <<"s","o","u","r","c","e",":","\n">>,
        <<"b","\n","S","o","u","r","c","e",":"," ","c",":"," ","d","\n","e">> >>,
      << LongReply >> }

\* text streams of the agent in step 3
AnalysisStreams ==
    { <<>>,
      << <<"T","H","O","U","G","H","T"," ","P","R","O","C","E","S","S",":"," ","t",
          "\n","F","I","N","A","L"," ","A","N","S","W","E","R",":"," ","S","u",
          "m","m","a","r","y",":"," ","o","k","\n">>,
        <<"K","e","y"," ","F","i","n","d","i","n","g","s",":","\n","-"," ","o",
          "n","e","\n","-"," ","t","w","o","\n","C","o","n","f","i","d","e","n",
          "c","e",":"," ","0",".","9">> >>,
      << <<"C","o","n","f","i","d","e","n","c","e",":"," ","1",".","5">> >>,
      << <<"F","i","n","d","i","n","g","s",":","\n","-"," ","\n">>,
        <<"c","o","n","f","i","d","e","n","c","e"," ","0",".","5">> >>,
      << <<"C","o","n","f","i","d","e","n","c","e",":"," ","0",".","7">> >>,
      << <<"S","u","m","m","a","r","y",":"," ","f","i","n","e","\n","c","o","n","f","i","d","e","n","c","e"," ","-"," ">>,
        <<"0",".","6","9">> >>,
      << <<"T","h","e"," ","a","n","a","l","y","s","i","s"," ","i","s"," ">>,
        <<"i","n","c","o","n","c","l","u","s","i","v","e",".">> >> }

SearchReplies == {Streamed(st) : st \in SearchStreams} \cup {Rejected}
AnalysisReplies == {Streamed(st) : st \in AnalysisStreams} \cup {Rejected}

(***************************************************************************)
(* One run of the workflow                                                 *)
(***************************************************************************)
NoCall == [fn |-> "none"]

\* no request to the chat route and no call of a weather tool
NoChat ==
    /\ request = [none |-> TRUE]
    /\ response = [none |-> TRUE]
    /\ weatherData = [none |-> TRUE]
    /\ toolResult = [none |-> TRUE]

\* the index 'papers' before createIndex
NoIndex == [created |-> FALSE, dimension |-> 0, records |-> {}]
\* the indexing script not run
ScriptNotRun ==
    /\ docChunks = <<>>
    /\ batchOffset = 0
    /\ allEmbeddings = <<>>
    /\ embedCalls = <<>>
    /\ papers = NoIndex
    /\ storeCalls = <<>>
    /\ run = 0

Init ==
    /\ NoChat
    /\ executions = <<>>
    /\ wfInput \in WorkflowInputs \cup {NoInputData}
    /\ agentRegistered \in BOOLEAN
    /\ pc = researchWorkflow[1]
    /\ stepInput = wfInput
    /\ agentCalls = <<>>
    /\ agentReplies = <<>>
    /\ externalCalls = <<>>
    /\ stepRuns = <<>>
    /\ wfResult = [status |-> "running"]
    /\ fnText = <<>>
    /\ fnResult = NoCall
    /\ ScriptNotRun

ExecuteVectorSearch ==
    /\ pc = "execute-vector-search"
    /\ \E reply \in SearchReplies :
          \E outcome \in {executeVectorSearch(stepInput, agentRegistered, reply)} :
              /\ Advance(outcome)
              /\ agentReplies' = agentReplies \o Answers(outcome, reply)

EnhanceWithExternalSources ==
    /\ pc = "enhance-external-sources"
    /\ \E outcome \in {enhanceWithExternalSources(stepInput)} : Advance(outcome)
    /\ UNCHANGED agentReplies

GenerateResearchReport ==
    /\ pc = "generate-research-report"
    /\ \E reply \in AnalysisReplies, now \in Timestamps :
          \E outcome \in {generateResearchReport(stepInput, agentRegistered, reply, now)} :
              /\ Advance(outcome)
              /\ agentReplies' = agentReplies \o Answers(outcome, reply)

Next ==
    \/ ExecuteVectorSearch
    \/ EnhanceWithExternalSources
    \/ GenerateResearchReport

Spec == Init /\ [][Next]_vars

(***************************************************************************)
(* The parsing functions called on their own, on every text made of at     *)
(* most MaxPieces pieces                                                   *)
(***************************************************************************)
MaxPieces == 3

Pieces ==
    { <<"S","o","u","r","c","e",":"," ","A">>,
      <<"s","o","u","r","c","e",":">>,
      <<"\n">>,
      <<"a","b","c">>,
      <<" ">>,
      <<"S","u","m","m","a","r","y",":">>,
      <<"F","i","n","d","i","n","g","s",":">>,
      <<"-"," ">>,
      <<"C","o","n","f","i","d","e","n","c","e",":">>,
      <<"1",".","5">>,
      <<"0",".","7">>,
      <<"F","I","N","A","L"," ","A","N","S","W","E","R",":">>,
      <<"T","H","O","U","G","H","T"," ","P","R","O","C","E","S","S",":">> }

RECURSIVE TextsOf(_)
TextsOf(n) ==
    IF n = 0 THEN { <<>> }
    ELSE LET shorter == TextsOf(n - 1)
         IN  shorter \cup {piece \o text : piece \in Pieces, text \in shorter}

\* queries: the ones of the workflow, one of more than ten terms, one with
\* capitals, punctuation and short words
QueryTexts ==
    Queries \cup
    { <<"o","n","e"," ","t","w","o"," ","t","h","r","e","e"," ","f","o","u","r"," ","f","i","v","e"," ","s","i","x"," ","s","e","v","e","n"," ","e","i","g","h","t"," ","n","i","n","e"," ","t","e","n"," ","e","l","e","v","e","n"," ","t","w","e","l","v","e"," ","t","h","i","r","t","e","e","n">>,
      <<" "," ","H","o","w"," ","d","o"," ","R","N","N","s"," ","(","e",".","g","."," ","L","S","T","M",","," ","G","R","U",")"," ","d","i","f","f","e","r"," ","f","r","o","m"," ","T","r","a","n","s","f","o","r","m","e","r","s","?","	","B","y"," ","a"," ","l","o","t","!"," ">>,
      <<"s","n","a","k","e","_","c","a","s","e"," ","n","a","m","e">> }

\* a reply of the agent that names a paper by its address
AddressReply ==
    <<"S","o","u","r","c","e",":"," ","h","t","t","p",":","/","/","a","r","x","i","v",".","o","r","g","/","a","b","s","/","1","7","0","6",".","0","3","7","6","2","\n">>
      \o <<"A","t","t","e","n","t","i","o","n"," ","i","s"," ","a","l","l"," ","y","o","u"," ","n","e","e","d">>

ParserInit ==
    /\ NoChat
    /\ executions = <<>>
    /\ fnText \in TextsOf(MaxPieces) \cup {LongReply, AddressReply} \cup QueryTexts
    /\ fnResult = NoCall
    /\ wfInput = NoInputData
    /\ agentRegistered = FALSE
    /\ pc = "idle"
    /\ stepInput = NoInputData
    /\ agentCalls = <<>>
    /\ agentReplies = <<>>
    /\ externalCalls = <<>>
    /\ stepRuns = <<>>
    /\ wfResult = [status |-> "idle"]
    /\ ScriptNotRun

CallExtractChunks ==
    /\ fnResult = NoCall
    /\ fnResult' = [fn |-> "extractChunksFromResponse",
                    value |-> extractChunksFromResponse(fnText)]
    /\ UNCHANGED <<wfInput, agentRegistered, pc, stepInput, agentCalls, agentReplies,
                   externalCalls, stepRuns, wfResult, fnText, executions, chatVars,
                   indexVars>>

CallParseAnalysis ==
    /\ fnResult = NoCall
    /\ fnResult' = [fn |-> "parseAnalysisResponse",
                    value |-> parseAnalysisResponse(fnText)]
    /\ UNCHANGED <<wfInput, agentRegistered, pc, stepInput, agentCalls, agentReplies,
                   externalCalls, stepRuns, wfResult, fnText, executions, chatVars,
                   indexVars>>

CallExtractSearchTerms ==
    /\ fnResult = NoCall
    /\ fnResult' = [fn |-> "extractSearchTerms", value |-> extractSearchTerms(fnText)]
    /\ UNCHANGED <<wfInput, agentRegistered, pc, stepInput, agentCalls, agentReplies,
                   externalCalls, stepRuns, wfResult, fnText, executions, chatVars,
                   indexVars>>

ParserNext ==
    \/ CallExtractChunks
    \/ CallParseAnalysis
    \/ CallExtractSearchTerms

ParserSpec == ParserInit /\ [][ParserNext]_vars

(***************************************************************************)
(* generateResearchReport executed on its own, on every enhanced result    *)
(* with at most MaxChunks chunks and at most MaxExternal external entries  *)
(***************************************************************************)
MaxChunks == 2
MaxExternal == 2

ChunkSources == { <<"A">>, <<"B">>, ExternalDatabaseSource }
ExternalSources == { ExternalDatabaseSource, WebSearchSource, <<"A">> }

ChunkOf(source) ==
    [text |-> <<"t">>, source |-> source, excerptKeywords |-> <<>>,
     score |-> MarkerScore]
ExternalEntryOf(source) ==
    [source |-> source, content |-> <<"c">>, relevance |-> <<75, 100>>]

RECURSIVE SeqsUpTo(_, _)
SeqsUpTo(S, n) ==
    IF n = 0 THEN { <<>> }
    ELSE LET shorter == SeqsUpTo(S, n - 1)
         IN  shorter \cup {Append(q, x) : q \in shorter, x \in S}

EnhancedResults ==
    { [vectorResults |-> [chunks |-> chunks, query |-> <<"A","I">>, topK |-> 5],
       externalContext |-> externalContext,
       searchTerms |-> extractSearchTerms(<<"A","I">>),
       analysisDepth |-> depth] :
         chunks \in SeqsUpTo({ChunkOf(x) : x \in ChunkSources}, MaxChunks),
         externalContext \in SeqsUpTo({ExternalEntryOf(x) : x \in ExternalSources},
                                      MaxExternal),
         depth \in AnalysisDepths }

ReportInit ==
    /\ NoChat
    /\ executions = <<>>
    /\ stepInput \in EnhancedResults
    /\ agentRegistered \in BOOLEAN
    /\ pc = "generate-research-report"
    /\ wfInput = NoInputData
    /\ agentCalls = <<>>
    /\ agentReplies = <<>>
    /\ externalCalls = <<>>
    /\ stepRuns = <<>>
    /\ wfResult = [status |-> "running"]
    /\ fnText = <<>>
    /\ fnResult = NoCall
    /\ ScriptNotRun

ReportNext == GenerateResearchReport

ReportSpec == ReportInit /\ [][ReportNext]_vars

(***************************************************************************)
(* The indexing script (src/src/mastra/index.ts, lines 29-99): the chunks  *)
(* of the document are embedded in batches, then the index 'papers' is     *)
(* created and the vectors are upserted. Every await is one step; a        *)
(* rejected await is an uncaught error of the script, which ends it.       *)
(***************************************************************************)
batchSize == 100
IndexDimension == 768
MaxRuns == 2

\* chunk k of the document, as doc.chunk returns it
DocChunk(k) ==
    [text |-> <<"text", k>>, metadata |-> [excerptKeywords |-> <<"keywords", k>>]]
ChunkCounts == {0, 1, 99, 100, 101, 200, 250}
Documents == {[k \in 1..n |-> DocChunk(k)] : n \in ChunkCounts}

\* the embedding the model gives a text
Embedding(text) == [embeddingOf |-> text]
\* embedMany resolved: one embedding per value, in the order of the values
embedMany(values) == [k \in 1..Len(values) |-> Embedding(values[k])]

\* chunks.slice(i, i + batchSize) that takes one element more
BatchAtInclusive(cs, offset) ==
    Slice(cs, offset + 1, Min(offset + batchSize + 1, Len(cs)))

\* chunks.slice(i, i + batchSize), i counted from 0
BatchAt(cs, offset) == Slice(cs, offset + 1, Min(offset + batchSize, Len(cs)))

\* a rejected embedMany that is caught and the loop carried on
EmbedRejectedSkipped(offset) == [pc |-> "embedding", batchOffset |-> offset + batchSize]

\* a rejected embedMany: the error is not caught, the script ends
EmbedRejected(offset) == [pc |-> "aborted", batchOffset |-> offset]

\* vectorStore.createIndex({indexName: "papers", dimension})
createIndex(index, dimension) ==
    IF index.created THEN index
    ELSE [created |-> TRUE, dimension |-> dimension, records |-> {}]

\* the metadata the script gives the store for its chunks
MetadataOf(cs) ==
    [k \in 1..Len(cs) |-> [text |-> cs[k].text, source |-> "transformer-paper",
                           excerptKeywords |-> cs[k].metadata.excerptKeywords]]

\* vectorStore.upsert({indexName: "papers", vectors, metadata}): no ids are
\* given, every vector is stored under an id of its own
upsert(index, vectors, metadata) ==
    LET used == {r.id : r \in index.records}
        base == IF used = {} THEN 0 ELSE CHOOSE m \in used : \A x \in used : m >= x
    IN  [index EXCEPT !.records =
            @ \cup {[id |-> base + k, vector |-> vectors[k],
                     metadata |-> IF k <= Len(metadata) THEN metadata[k] ELSE <<>>] :
                        k \in 1..Len(vectors)}]

IndexInit ==
    /\ NoChat
    /\ executions = <<>>
    /\ docChunks \in Documents
    /\ batchOffset = 0
    /\ allEmbeddings = <<>>
    /\ embedCalls = <<>>
    /\ papers = NoIndex
    /\ storeCalls = <<>>
    /\ run = 1
    /\ pc = "embedding"
    /\ wfInput = NoInputData
    /\ agentRegistered = FALSE
    /\ stepInput = NoInputData
    /\ agentCalls = <<>>
    /\ agentReplies = <<>>
    /\ externalCalls = <<>>
    /\ stepRuns = <<>>
    /\ wfResult = [status |-> "idle"]
    /\ fnText = <<>>
    /\ fnResult = NoCall

\* one pass of the batch loop: await embedMany resolves or rejects
EmbedBatch ==
    /\ pc = "embedding"
    /\ batchOffset < Len(docChunks)
    /\ LET batch == BatchAt(docChunks, batchOffset)
           values == [k \in 1..Len(batch) |-> batch[k].text]
       IN  \E resolved \in BOOLEAN :
              /\ embedCalls' = Append(embedCalls, [run |-> run, values |-> values,
                                                   resolved |-> resolved])
              /\ IF resolved
                 THEN /\ allEmbeddings' = allEmbeddings \o embedMany(values)
                      /\ batchOffset' = batchOffset + batchSize
                      /\ pc' = pc
                 ELSE /\ pc' = EmbedRejected(batchOffset).pc
                      /\ batchOffset' = EmbedRejected(batchOffset).batchOffset
                      /\ UNCHANGED allEmbeddings
    /\ UNCHANGED <<workflowVars, docChunks, papers, storeCalls, run>>

\* the loop ends; await vectorStore.createIndex
CreateIndex ==
    /\ pc = "embedding"
    /\ batchOffset >= Len(docChunks)
    /\ papers' = createIndex(papers, IndexDimension)
    /\ storeCalls' = Append(storeCalls, [run |-> run, method |-> "createIndex"])
    /\ pc' = "upsert"
    /\ UNCHANGED <<workflowVars, docChunks, batchOffset, allEmbeddings, embedCalls, run>>

\* await vectorStore.upsert
Upsert ==
    /\ pc = "upsert"
    /\ papers' = upsert(papers, allEmbeddings, MetadataOf(docChunks))
    /\ storeCalls' = Append(storeCalls, [run |-> run, method |-> "upsert"])
    /\ pc' = "done"
    /\ UNCHANGED <<workflowVars, docChunks, batchOffset, allEmbeddings, embedCalls, run>>

\* the script is run again over the same document
RunAgain ==
    /\ pc \in {"done", "aborted"}
    /\ run < MaxRuns
    /\ run' = run + 1
    /\ batchOffset' = 0
    /\ allEmbeddings' = <<>>
    /\ pc' = "embedding"
    /\ UNCHANGED <<workflowVars, docChunks, embedCalls, papers, storeCalls>>

IndexNext ==
    \/ EmbedBatch
    \/ CreateIndex
    \/ Upsert
    \/ RunAgain

IndexSpec == IndexInit /\ [][IndexNext]_vars

(***************************************************************************)
(* Two runs of the workflow for independent requests, their steps          *)
(* interleaved in any order. A step works on the inputData of its own run  *)
(* and on local variables only; the agent answers each run's calls with    *)
(* that run's replies.                                                     *)
(***************************************************************************)
Executions == {1, 2}
ConcurrentInputs ==
    [query : Queries \ { <<>> }, topK : {3}, includeExternalSources : BOOLEAN,
     analysisDepth : {"basic"}]
ConcurrentReplies ==
    [search : {Rejected} \cup
              {Streamed(st) : st \in {x \in SearchStreams : Len(x) = 2}},
     analysis : {Rejected} \cup
                {Streamed(st) : st \in {x \in AnalysisStreams : Len(x) = 1}}]

\* a run that has not started its first step
NewExecution(inputData, replies) ==
    [input |-> inputData, replies |-> replies, pc |-> researchWorkflow[1],
     stepInput |-> inputData, result |-> [status |-> "running"]]

\* the execute of the step id on the inputData of a run
RunStep(id, inputData, agent, replies, now) ==
    IF id = "execute-vector-search"
    THEN executeVectorSearch(inputData, agent, replies.search)
    ELSE IF id = "enhance-external-sources"
    THEN enhanceWithExternalSources(inputData)
    ELSE generateResearchReport(inputData, agent, replies.analysis, now)

\* a run after its step at pc ended with outcome
Advanced(execution, outcome) ==
    IF outcome.status = "failed"
    THEN [execution EXCEPT !.pc = "failed",
                           !.result = [status |-> "failed", error |-> outcome.value]]
    ELSE IF StepAfter(execution.pc) = "success"
    THEN [execution EXCEPT !.pc = "success",
                           !.result = [status |-> "success", result |-> outcome.value]]
    ELSE [execution EXCEPT !.pc = StepAfter(execution.pc), !.stepInput = outcome.value]

\* Commit with the result of a step kept in one place for all runs: every run
\* waiting for that step is handed it too
CommitShared(all, e, outcome) ==
    [x \in DOMAIN all |->
        IF x = e THEN Advanced(all[x], outcome)
        ELSE IF outcome.status = "success" /\ all[x].pc = StepAfter(all[e].pc)
        THEN [all[x] EXCEPT !.stepInput = outcome.value]
        ELSE all[x]]

\* the runs after run e ended a step with outcome: only run e has changed
Commit(all, e, outcome) == [all EXCEPT ![e] = Advanced(all[e], outcome)]

ConcurrentInit ==
    /\ NoChat
    /\ executions \in [Executions -> {NewExecution(inputData, replies) :
                                         inputData \in ConcurrentInputs,
                                         replies \in ConcurrentReplies}]
    /\ agentRegistered \in BOOLEAN
    /\ pc = "idle"
    /\ wfInput = NoInputData
    /\ stepInput = NoInputData
    /\ agentCalls = <<>>
    /\ agentReplies = <<>>
    /\ externalCalls = <<>>
    /\ stepRuns = <<>>
    /\ wfResult = [status |-> "idle"]
    /\ fnText = <<>>
    /\ fnResult = NoCall
    /\ ScriptNotRun

\* one step of the run e
ConcurrentStep(e) ==
    /\ executions[e].pc \in Range(researchWorkflow)
    /\ \E now \in Timestamps :
          \E outcome \in {RunStep(executions[e].pc, executions[e].stepInput,
                                  agentRegistered, executions[e].replies, now)} :
              executions' = Commit(executions, e, outcome)
    /\ UNCHANGED <<wfInput, agentRegistered, pc, stepInput, agentCalls, agentReplies,
                   externalCalls, stepRuns, wfResult, fnText, fnResult, chatVars,
                   indexVars>>

ConcurrentNext == \E e \in Executions : ConcurrentStep(e)

ConcurrentSpec == ConcurrentInit /\ [][ConcurrentNext]_vars

(***************************************************************************)
(* The chat route (src/unnamed/part_000, lines 64-172): POST picks the     *)
(* agent of a request and forwards the messages to it. A JavaScript value  *)
(* is a record with its kind: undefined, null, a string, a number, an      *)
(* array of items, or an object with its fields.                           *)
(***************************************************************************)
Undefined == [kind |-> "undefined"]
Null == [kind |-> "null"]
Str(text) == [kind |-> "string", value |-> text]
Num(n) == [kind |-> "number", number |-> n]
Arr(items) == [kind |-> "array", items |-> items]
Obj(fields) == [kind |-> "object", fields |-> fields]

\* !!v
IsTruthy(v) ==
    IF v.kind \in {"undefined", "null"} THEN FALSE
    ELSE IF v.kind = "string" THEN v.value # <<>>
    ELSE IF v.kind = "number" THEN v.number # 0
    ELSE TRUE
\* v[name] of a value that is not undefined or null
Field(v, name) ==
    IF v.kind = "object" /\ name \in DOMAIN v.fields THEN v.fields[name] ELSE Undefined

AVAILABLE_AGENTS == {"researchAgent", "weatherAgent"}
\* the names every object inherits, such as constructor
InheritedNames == {"constructor", "toString"}

WEATHER_KEYWORDS ==
    << <<"w","e","a","t","h","e","r">>,
      <<"t","e","m","p","e","r","a","t","u","r","e">>,
      <<"f","o","r","e","c","a","s","t">>,
      <<"r","a","i","n">>,
      <<"s","u","n","n","y">>,
      <<"c","l","o","u","d","y">>,
      <<"s","t","o","r","m">>,
      <<"h","u","m","i","d","i","t","y">>,
      <<"w","i","n","d">>,
      <<"c","e","l","s","i","u","s">>,
      <<"f","a","h","r","e","n","h","e","i","t">>,
      <<"c","l","i","m","a","t","e">>,
      <<"m","e","t","e","o","r","o","l","o","g","y">>,
      <<"o","u","t","d","o","o","r"," ","a","c","t","i","v","i","t","i","e","s">>,
      <<"p","l","a","n"," ","a","c","t","i","v","i","t","i","e","s">>,
      <<"w","e","e","k","e","n","d"," ","p","l","a","n">>,
      <<"w","e","a","t","h","e","r"," ","r","e","p","o","r","t">> >>

Space == <<" ">>
IsTextPart(part) == Field(part, "type") = Str(<<"t","e","x","t">>)

\* the text parts of an array content, joined with a space
JoinedText(parts) ==
    LET textParts == SelectSeq(parts, IsTextPart)
    IN  join([k \in 1..Len(textParts) |-> Field(textParts[k], "text").value], Space)

\* detectWeatherQuery that looks at the first message
detectWeatherQueryFirst(messages) ==
    IF messages.kind # "array" THEN FALSE
    ELSE IF messages.items = <<>> THEN FALSE
    ELSE LET lastMessage == messages.items[1]
             content == Field(lastMessage, "content")
         IN  IF ~IsTruthy(lastMessage) \/ ~IsTruthy(content) THEN FALSE
             ELSE IF content.kind \notin {"array", "string"} THEN FALSE
             ELSE LET text == IF content.kind = "array" THEN JoinedText(content.items)
                              ELSE content.value
                  IN  \E k \in DOMAIN WEATHER_KEYWORDS :
                         includes(toLowerCase(text), toLowerCase(WEATHER_KEYWORDS[k]))

detectWeatherQuery(messages) ==
    IF messages.kind # "array" THEN FALSE
    ELSE IF messages.items = <<>> THEN FALSE
    ELSE LET lastMessage == messages.items[Len(messages.items)]
             content == Field(lastMessage, "content")
         IN  IF ~IsTruthy(lastMessage) \/ ~IsTruthy(content) THEN FALSE
             ELSE IF content.kind \notin {"array", "string"} THEN FALSE
             ELSE LET text == IF content.kind = "array" THEN JoinedText(content.items)
                              ELSE content.value
                  IN  \E k \in DOMAIN WEATHER_KEYWORDS :
                         includes(toLowerCase(text), toLowerCase(WEATHER_KEYWORDS[k]))

NotForwarded == "none"
\* the 500 answer of the catch block
ServerError(agent) == [status |-> 500, forwardedTo |-> agent, messages |-> Undefined]

\* role: msg.role || 'user'
WithRole(msg) ==
    Obj([name \in DOMAIN msg.fields \cup {"role"} |->
            IF name = "role"
            THEN IF IsTruthy(Field(msg, "role")) THEN Field(msg, "role")
                 ELSE Str(<<"u","s","e","r">>)
            ELSE msg.fields[name]])

\* what POST answers and which agent it sent the messages to; fetchOk is
\* whether the agent answered with an ok status
POST(req, fetchOk) ==
    LET messages == req.messages
        agent == IF req.agent = Undefined THEN "researchAgent" ELSE req.agent.name
        isWeatherQuery == detectWeatherQuery(messages)
        selectedAgent == IF isWeatherQuery THEN "weatherAgent" ELSE agent
    IN  IF selectedAgent \notin AVAILABLE_AGENTS \cup InheritedNames
        THEN [status |-> 400, forwardedTo |-> NotForwarded, messages |-> Undefined]
        \* messages.map throws when messages is no array, msg.role when msg is null
        ELSE IF messages.kind # "array" THEN ServerError(NotForwarded)
        ELSE IF \E k \in DOMAIN messages.items : messages.items[k].kind # "object"
        THEN ServerError(NotForwarded)
        \* fetch rejects what is not an address
        ELSE IF selectedAgent \in InheritedNames THEN ServerError(NotForwarded)
        ELSE [status |-> IF fetchOk THEN 200 ELSE 500,
              forwardedTo |-> selectedAgent,
              messages |-> Arr([k \in DOMAIN messages.items |-> WithRole(messages.items[k])])]

MaxMessages == 2

TextPart(text) == Obj([type |-> Str(<<"t","e","x","t">>), text |-> Str(text)])
ImagePart == Obj([type |-> Str(<<"i","m","a","g","e">>)])
Contents ==
    { Undefined, Null, Str(<<>>), Num(5), Arr(<<>>),
      Str(<<"W","h","a","t"," ","i","s"," ","t","h","e"," ","W","e","a","t","h","e","r"," ","i","n"," ","T","o","k","y","o","?">>),
      Str(<<"E","x","p","l","a","i","n"," ","n","e","u","r","a","l"," ","n","e","t","w","o","r","k","s">>),
      Str(<<"t","r","a","i","n","i","n","g"," ","d","a","t","a">>),
      Arr(<<TextPart(<<"P","l","a","n">>), ImagePart, TextPart(<<"a","c","t","i","v","i","t","i","e","s">>)>>) }
Messages ==
    {Obj([content |-> c]) : c \in Contents }
        \cup {Null, Obj([role |-> Str(<<"a","s","s","i","s","t","a","n","t">>), content |-> Str(<<"I","t"," ","w","i","l","l"," ","r","a","i","n">>)])}
MessageLists == UNION {[1..n -> Messages] : n \in 0..MaxMessages}
AgentName(n) == [kind |-> "string", name |-> n]
Requests ==
    [agent : {Undefined} \cup {AgentName(n) : n \in AVAILABLE_AGENTS \cup {"codeAgent", "constructor"}},
     messages : {Undefined, Str(<<"w","e","a","t","h","e","r">>)} \cup {Arr(items) : items \in MessageLists}]

WorkflowNotRun ==
    /\ executions = <<>>
    /\ wfInput = NoInputData
    /\ agentRegistered = FALSE
    /\ pc = "idle"
    /\ stepInput = NoInputData
    /\ agentCalls = <<>>
    /\ agentReplies = <<>>
    /\ externalCalls = <<>>
    /\ stepRuns = <<>>
    /\ wfResult = [status |-> "idle"]
    /\ fnText = <<>>
    /\ fnResult = NoCall

ChatInit ==
    /\ request \in Requests
    /\ response = [none |-> TRUE]
    /\ weatherData = [none |-> TRUE]
    /\ toolResult = [none |-> TRUE]
    /\ WorkflowNotRun
    /\ ScriptNotRun

\* the route answers the request; the agent's own answer is ok or not
Post ==
    /\ response = [none |-> TRUE]
    /\ \E fetchOk \in BOOLEAN : response' = POST(request, fetchOk)
    /\ UNCHANGED <<wfInput, agentRegistered, pc, stepInput, agentCalls, agentReplies,
                   externalCalls, stepRuns, wfResult, fnText, fnResult, executions,
                   request, weatherData, toolResult, indexVars>>

CallDetectWeatherQuery ==
    /\ fnResult = NoCall
    /\ fnResult' = [fn |-> "detectWeatherQuery",
                    value |-> detectWeatherQuery(request.messages)]
    /\ UNCHANGED <<wfInput, agentRegistered, pc, stepInput, agentCalls, agentReplies,
                   externalCalls, stepRuns, wfResult, fnText, executions, chatVars,
                   indexVars>>

ChatNext ==
    \/ Post
    \/ CallDetectWeatherQuery

ChatSpec == ChatInit /\ [][ChatNext]_vars

(***************************************************************************)
(* weatherWorkflowTool (src/src/mastra/tools/weather-workflow-tool.ts) and *)
(* the weather workflow it runs (src/unnamed/part_004). The tool is taken  *)
(* to run the two steps of the workflow on {location} and to find the last *)
(* step's return value in result.output. The date fields, each the time of *)
(* its own new Date(), are left out.                                       *)
(***************************************************************************)
MaxHours == 2

MaxOf(numbers) == CHOOSE n \in Range(numbers) : \A m \in Range(numbers) : m <= n
MinOf(numbers) == CHOOSE n \in Range(numbers) : \A m \in Range(numbers) : n <= m

getWeatherCondition(code) ==
    LET conditions ==
            (0 :> "Clear sky") @@ (1 :> "Mainly clear") @@ (2 :> "Partly cloudy")
            @@ (3 :> "Overcast") @@ (45 :> "Foggy") @@ (48 :> "Depositing rime fog")
            @@ (51 :> "Light drizzle") @@ (53 :> "Moderate drizzle")
            @@ (55 :> "Dense drizzle") @@ (61 :> "Slight rain")
            @@ (63 :> "Moderate rain") @@ (65 :> "Heavy rain")
            @@ (71 :> "Slight snow fall") @@ (73 :> "Moderate snow fall")
            @@ (75 :> "Heavy snow fall") @@ (95 :> "Thunderstorm")
    IN  IF code \in DOMAIN conditions THEN conditions[code] ELSE "Unknown"

\* the activities text by its parts: the values written into the summary
\* and the heading of the section the forecast selects
generateActivitiesFromForecast(forecast) ==
    [location |-> forecast.location,
     condition |-> forecast.condition,
     minTemp |-> forecast.minTemp,
     maxTemp |-> forecast.maxTemp,
     precipitationChance |-> forecast.precipitationChance,
     section |-> IF forecast.precipitationChance > 50 THEN "RAINY DAY ACTIVITIES"
                 ELSE IF forecast.maxTemp > 30 THEN "HOT WEATHER ACTIVITIES"
                 ELSE IF forecast.maxTemp < 10 THEN "COLD WEATHER ACTIVITIES"
                 ELSE "PERFECT WEATHER ACTIVITIES"]

\* the fetch-weather step on the answers of the geocoding and forecast services
fetchWeather(inputData, data) ==
    IF ~data.found
    THEN [status |-> "failed",
          value |-> [message |-> "Location not found", location |-> inputData.location]]
    ELSE [status |-> "success",
          value |-> [maxTemp |-> MaxOf(data.temperature_2m),
                     minTemp |-> MinOf(data.temperature_2m),
                     condition |-> getWeatherCondition(data.weathercode),
                     precipitationChance |->
                         MaxOf(<<0>> \o data.precipitation_probability),
                     location |-> data.name]]

planActivities(inputData) ==
    [status |-> "success",
     value |-> [activities |-> generateActivitiesFromForecast(inputData)]]

\* the response of the tool after the workflow succeeded with result
weatherWorkflowToolResponse(location, result) ==
    [activities |-> result.activities,
     location |-> location,
     forecast |-> [maxTemp |-> 22, minTemp |-> 15, precipitationChance |-> 25,
                   condition |-> "Workflow analysis completed"]]

Locations == {Undefined, Str(<<>>), Str(<<"t","o","k","y","o">>), Str(<<"A","t","l","a","n","t","i","s">>)}
WeatherAnswers ==
    [found : BOOLEAN,
     name : {Str(<<"T","o","k","y","o">>)},
     weathercode : {0, 61, 7},
     temperature_2m : UNION {[1..n -> {5, 15, 22, 35}] : n \in 1..MaxHours},
     precipitation_probability : UNION {[1..n -> {25, 80}] : n \in 0..MaxHours}]

ToolInit ==
    /\ request \in [location : Locations]
    /\ weatherData \in WeatherAnswers
    /\ response = [none |-> TRUE]
    /\ toolResult = [none |-> TRUE]
    /\ executions = <<>>
    /\ wfInput = NoInputData
    /\ agentRegistered = FALSE
    /\ pc = "weather-workflow-tool"
    /\ stepInput = NoInputData
    /\ agentCalls = <<>>
    /\ agentReplies = <<>>
    /\ externalCalls = <<>>
    /\ stepRuns = <<>>
    /\ wfResult = [status |-> "idle"]
    /\ fnText = <<>>
    /\ fnResult = NoCall
    /\ ScriptNotRun

\* execute up to the call of the workflow
CallWeatherWorkflowTool ==
    /\ pc = "weather-workflow-tool"
    /\ IF ~IsTruthy(request.location)
       THEN /\ toolResult' = [status |-> "failed",
                              error |-> [message |-> "Location input is required"]]
            /\ pc' = "returned"
            /\ UNCHANGED stepInput
       ELSE /\ stepInput' = [location |-> request.location]
            /\ pc' = "fetch-weather"
            /\ UNCHANGED toolResult
    /\ UNCHANGED <<wfInput, agentRegistered, agentCalls, agentReplies, externalCalls,
                   stepRuns, wfResult, fnText, fnResult, executions, request, response,
                   weatherData, indexVars>>

FetchWeather ==
    /\ pc = "fetch-weather"
    /\ LET outcome == fetchWeather(stepInput, weatherData)
       IN  /\ stepRuns' = Append(stepRuns, [id |-> pc, status |-> outcome.status,
                                             input |-> stepInput, output |-> outcome.value])
           /\ IF outcome.status = "failed"
              THEN /\ pc' = "workflow-ended"
                   /\ wfResult' = [status |-> "failed", error |-> outcome.value]
                   /\ UNCHANGED stepInput
              ELSE /\ pc' = "plan-activities"
                   /\ stepInput' = outcome.value
                   /\ UNCHANGED wfResult
    /\ UNCHANGED <<wfInput, agentRegistered, agentCalls, agentReplies, externalCalls,
                   fnText, fnResult, executions, chatVars, indexVars>>

PlanActivities ==
    /\ pc = "plan-activities"
    /\ LET outcome == planActivities(stepInput)
       IN  /\ stepRuns' = Append(stepRuns, [id |-> pc, status |-> outcome.status,
                                             input |-> stepInput, output |-> outcome.value])
           /\ wfResult' = [status |-> "success", result |-> outcome.value]
    /\ pc' = "workflow-ended"
    /\ UNCHANGED <<wfInput, agentRegistered, stepInput, agentCalls, agentReplies,
                   externalCalls, fnText, fnResult, executions, chatVars, indexVars>>

\* execute after the workflow ended: the response, or the catch block
ReturnWeatherWorkflowTool ==
    /\ pc = "workflow-ended"
    /\ toolResult' =
          IF wfResult.status = "failed"
          THEN [status |-> "failed",
                error |-> [message |-> "Failed to execute weather workflow",
                           cause |-> wfResult.error]]
          ELSE [status |-> "success",
                value |-> weatherWorkflowToolResponse(request.location, wfResult.result)]
    /\ pc' = "returned"
    /\ UNCHANGED <<wfInput, agentRegistered, stepInput, agentCalls, agentReplies,
                   externalCalls, stepRuns, wfResult, fnText, fnResult, executions,
                   request, response, weatherData, indexVars>>

ToolNext ==
    \/ CallWeatherWorkflowTool
    \/ FetchWeather
    \/ PlanActivities
    \/ ReturnWeatherWorkflowTool

ToolSpec == ToolInit /\ [][ToolNext]_vars

(***************************************************************************)
(* Properties                                                              *)
(***************************************************************************)
StepOrder ==
    << "execute-vector-search", "enhance-external-sources", "generate-research-report" >>
AgentSteps == {"execute-vector-search", "generate-research-report"}

RanStep(id) == \E k \in DOMAIN stepRuns : stepRuns[k].id = id
RunOf(id) == stepRuns[CHOOSE k \in DOMAIN stepRuns : stepRuns[k].id = id]

\* C1: the steps of a run are entered in the order execute-vector-search,
\* enhance-external-sources, generate-research-report, each at most once and only
\* after the step before it returned; a step makes at most one agent call; the run
\* succeeds, with a report, only after all three steps returned.
C1_StrictSequence ==
    /\ Len(stepRuns) <= Len(StepOrder)
    /\ \A k \in DOMAIN stepRuns : stepRuns[k].id = StepOrder[k]
    /\ \A k \in DOMAIN stepRuns : k < Len(stepRuns) => stepRuns[k].status = "success"
    /\ pc \in Range(StepOrder) =>
          /\ Len(stepRuns) < Len(StepOrder)
          /\ pc = StepOrder[Len(stepRuns) + 1]
          /\ wfResult.status = "running"
    /\ Len(agentCalls) <= Cardinality({k \in DOMAIN stepRuns : stepRuns[k].id \in AgentSteps})
    /\ pc = "failed" <=> wfResult.status = "failed"
    /\ pc = "failed" => stepRuns # <<>> /\ stepRuns[Len(stepRuns)].status = "failed"
    /\ pc = "success" <=> wfResult.status = "success"
    /\ pc = "success" =>
          /\ Len(stepRuns) = Len(StepOrder)
          /\ \A k \in DOMAIN stepRuns : stepRuns[k].status = "success"
          /\ wfResult.result = stepRuns[Len(stepRuns)].output
          /\ Len(agentCalls) = 2

C1_Witness ==
    /\ pc = "success"
    /\ Len(stepRuns) = 3
    /\ "summary" \in DOMAIN wfResult.result

\* a line of the text holds one of the markers of extractChunksFromResponse
HasSourceMarker(text) == includes(text, SourceMarker) \/ includes(text, SourceMarkerCapital)

ExtractCalled == fnResult.fn = "extractChunksFromResponse"
ParseCalled == fnResult.fn = "parseAnalysisResponse"

\* C2: extractChunksFromResponse returns at least one chunk for every response
\* text, each chunk with a text, a source, keywords and a score.
C2_AtLeastOneChunk ==
    ExtractCalled =>
        /\ Len(fnResult.value) >= 1
        /\ \A k \in DOMAIN fnResult.value :
              DOMAIN fnResult.value[k] = {"text", "source", "excerptKeywords", "score"}

\* the only marker line is the last line, so that no line follows it
C2_Witness ==
    /\ ExtractCalled
    /\ HasSourceMarker(fnText)
    /\ Len(fnText) > 0
    /\ LET lines == splitChar(fnText, "\n")
       IN  /\ Len(lines) > 1
           /\ HasSourceMarker(lines[Len(lines)])
           /\ \A k \in 1..(Len(lines) - 1) : ~HasSourceMarker(lines[k])
    /\ Len(fnResult.value) = 1

C4_ExternalGathered ==
    /\ (RanStep("enhance-external-sources") /\ wfInput.includeExternalSources) =>
          LET terms == extractSearchTerms(wfInput.query)
          IN  /\ externalCalls = << [query |-> wfInput.query, searchTerms |-> terms] >>
              /\ RunOf("enhance-external-sources").output.externalContext
                    = gatherExternalContext(wfInput.query, terms)
              /\ RanStep("generate-research-report") =>
                    RunOf("generate-research-report").input.externalContext
                       = gatherExternalContext(wfInput.query, terms)
    /\ externalCalls # <<>> => wfInput.includeExternalSources

\* C5: in a run started with includeExternalSources = false the Augment step runs
\* once and returns: it makes no gatherExternalContext call, its externalContext
\* is empty, and the chunks, query and topK of step 1 go on unchanged.
C5_PassThrough ==
    (RanStep("enhance-external-sources") /\ ~wfInput.includeExternalSources) =>
        LET search == RunOf("execute-vector-search")
            augment == RunOf("enhance-external-sources")
        IN  /\ augment.status = "success"
            /\ Cardinality({k \in DOMAIN stepRuns :
                              stepRuns[k].id = "enhance-external-sources"}) = 1
            /\ externalCalls = <<>>
            /\ augment.output.externalContext = <<>>
            /\ augment.output.vectorResults.chunks = search.output.chunks
            /\ augment.output.vectorResults.query = wfInput.query
            /\ augment.output.vectorResults.topK = wfInput.topK

C5_Witness ==
    /\ pc = "generate-research-report"
    /\ ~wfInput.includeExternalSources
    /\ RunOf("enhance-external-sources").status = "success"
    /\ RunOf("enhance-external-sources").output.externalContext = <<>>
    /\ Len(RunOf("enhance-external-sources").output.vectorResults.chunks) = 2

\* C6: every step is handed all the fields its inputSchema declares, and the
\* analysisDepth of the workflow input is the depth written into the analysis prompt.
C6_ClosedContract ==
    wfResult.status = "success" =>
        /\ \A k \in DOMAIN stepRuns :
              StepInputFields(stepRuns[k].id) \subseteq DOMAIN stepRuns[k].input
        /\ \A k \in DOMAIN agentCalls :
              agentCalls[k].template = "analysis" =>
                 agentCalls[k].analysisDepth = wfInput.analysisDepth

\* the confidence parseAnalysisResponse reads before it clamps it
ParsedConfidence == ExtractConfidence(SectionOrText(fnText, 2))

\* C7: the confidence of the parsed analysis lies in [0, 1]: a parsed value above
\* 1 is stored as 1, one below 0 as 0, and one inside the interval as it is.
C7_ConfidenceClamped ==
    ParseCalled =>
        /\ ~RatLess(fnResult.value.confidence, Zero)
        /\ ~RatLess(One, fnResult.value.confidence)
        /\ RatLess(One, ParsedConfidence) => RatEq(fnResult.value.confidence, One)
        /\ RatLess(ParsedConfidence, Zero) => RatEq(fnResult.value.confidence, Zero)
        /\ (~RatLess(One, ParsedConfidence) /\ ~RatLess(ParsedConfidence, Zero)) =>
              RatEq(fnResult.value.confidence, ParsedConfidence)

C7_Witness ==
    /\ ParseCalled
    /\ RatEq(ParsedConfidence, <<15, 10>>)
    /\ RatEq(fnResult.value.confidence, One)

\* C8: the keyFindings of the parsed analysis always hold at least one entry.
C8_AtLeastOneFinding ==
    ParseCalled => Len(fnResult.value.keyFindings) >= 1

\* the text holds the literal, whatever the case of its letters
HasLabel(text, literal) == Occurrences(text, literal) # {}

\* C9: the summary of the parsed analysis is never empty or blank: it is the fixed
\* fallback string, or the rest of a line that follows a summary label, trimmed;
\* without any summary label it is the fallback string.
C9_SummaryNeverEmpty ==
    ParseCalled =>
        LET summary == fnResult.value.summary
        IN  /\ summary # <<>>
            /\ trim(summary) = summary
            /\ ~HasLabel(fnText, SummaryLabel) => summary = FallbackSummary
            /\ summary # FallbackSummary =>
                  /\ \A i \in DOMAIN summary : summary[i] \notin LineTerminators
                  /\ \E p \in Occurrences(fnText, SummaryLabel) :
                        \E i \in (p + Len(SummaryLabel))..Len(fnText) :
                            StartsAt(fnText, summary, i)

\* a summary label followed by blank content only
C9_Witness ==
    /\ ParseCalled
    /\ HasLabel(fnText, SummaryLabel)
    /\ fnText[Len(fnText)] = " "
    /\ fnResult.value.summary = FallbackSummary

\* the text holds no source marker and no summary, findings or confidence label
Unlabelled(text) ==
    /\ ~HasSourceMarker(text)
    /\ ~HasLabel(text, SummaryLabel)
    /\ ~HasLabel(text, FindingLabel)
    /\ ~HasLabel(text, InsightLabel)
    /\ ~HasLabel(text, ConfidenceLabel)

\* C10: a response without source markers and without summary, findings or
\* confidence labels degrades to placeholders: extractChunksFromResponse gives the
\* one fallback chunk, parseAnalysisResponse the confidence 0.8 and the findings
\* list made of the placeholder finding alone.
C10_DegradesToPlaceholders ==
    Unlabelled(fnText) =>
        /\ ExtractCalled =>
              /\ Len(fnResult.value) = 1
              /\ fnResult.value[1].source = FallbackSource
        /\ ParseCalled =>
              /\ RatEq(fnResult.value.confidence, <<8, 10>>)
              /\ fnResult.value.keyFindings = << PlaceholderFinding >>
              /\ fnResult.value.summary = FallbackSummary

C10_Witness ==
    /\ ParseCalled
    /\ Unlabelled(fnText)
    /\ Len(fnText) > 0
    /\ fnResult.value.keyFindings = << PlaceholderFinding >>
    /\ RatEq(fnResult.value.confidence, <<8, 10>>)

\* the report a run ended with, and the enhanced result it was generated from
ReportProduced == wfResult.status = "success"
Report == wfResult.result
ReportInput == RunOf("generate-research-report").input
ReportChunkSources ==
    {ReportInput.vectorResults.chunks[k].source :
        k \in DOMAIN ReportInput.vectorResults.chunks}
ReportExternalSources ==
    {ReportInput.externalContext[k].source : k \in DOMAIN ReportInput.externalContext}

\* C11: the sources of a report hold no source twice and are, as a set, the
\* sources of the chunks together with the sources of the external context.
C11_SourcesDeduplicated ==
    ReportProduced =>
        /\ \A i, j \in DOMAIN Report.sources : i # j => Report.sources[i] # Report.sources[j]
        /\ Range(Report.sources) = ReportChunkSources \cup ReportExternalSources

\* a report compiled from chunks and external entries that share a source
C11_Witness ==
    /\ ReportProduced
    /\ ReportChunkSources \cap ReportExternalSources # {}
    /\ Len(Report.sources) < Len(ReportInput.vectorResults.chunks)
                                + Len(ReportInput.externalContext)
    /\ Cardinality(ReportChunkSources \cup ReportExternalSources) >= 3

\* C12: the recommendations of every report hold the two general recommendations.
C12_GeneralRecommendations ==
    ReportProduced =>
        {RecommendValidate, RecommendRecent} \subseteq Range(Report.recommendations)

\* a report for which a rule before the general recommendations fired
C12_Witness ==
    /\ ReportProduced
    /\ RatLess(Report.confidence, <<7, 10>>)
    /\ Cardinality(ReportChunkSources \cup ReportExternalSources) < 3
    /\ ReportInput.externalContext # <<>>
    /\ Len(Report.recommendations) = 4

\* C13: "gather additional sources" is recommended exactly when the confidence is
\* below 0.7, "more diverse sources" exactly when there are fewer than 3 distinct
\* sources, "enable external sources" exactly when the external context is empty.
C13_ConditionalRecommendations ==
    ReportProduced =>
        /\ RecommendGather \in Range(Report.recommendations)
              <=> RatLess(Report.confidence, <<7, 10>>)
        /\ RecommendDiversify \in Range(Report.recommendations)
              <=> Cardinality(ReportChunkSources \cup ReportExternalSources) < 3
        /\ RecommendExternal \in Range(Report.recommendations)
              <=> ReportInput.externalContext = <<>>

\* a report with confidence exactly 0.7, three distinct sources and external context
C13_Witness ==
    /\ ReportProduced
    /\ RatEq(Report.confidence, <<7, 10>>)
    /\ Cardinality(ReportChunkSources \cup ReportExternalSources) = 3
    /\ ReportInput.externalContext # <<>>
    /\ Report.recommendations = << RecommendValidate, RecommendRecent >>

\* the recommendations of the report that the confidence and diversity rules
\* did not add
IsRuleRecommendation(r) == r \in {RecommendGather, RecommendDiversify}
IsOtherRecommendation(r) == ~IsRuleRecommendation(r)
OtherRecommendations == SelectSeq(Report.recommendations, IsOtherRecommendation)
ExternalDisabledRun ==
    /\ ReportProduced
    /\ ~IsUndefined(wfInput)
    /\ wfInput.includeExternalSources = FALSE

\* C14 as stated: in a run with includeExternalSources = false the external
\* context is empty and, apart from the confidence and diversity rules, only the
\* two general recommendations are added.
C14_Original ==
    ExternalDisabledRun =>
        /\ ReportInput.externalContext = <<>>
        /\ OtherRecommendations = << RecommendValidate, RecommendRecent >>

\* C14: in a run with includeExternalSources = false the external context is
\* empty and, apart from the confidence and diversity rules, the two general
\* recommendations are added, followed by "enable external sources".
C14_ExternalDisabled ==
    ExternalDisabledRun =>
        /\ ReportInput.externalContext = <<>>
        /\ externalCalls = <<>>
        /\ OtherRecommendations =
              << RecommendValidate, RecommendRecent, RecommendExternal >>

\* a run with includeExternalSources = false that produced a report
C14_Witness ==
    /\ ExternalDisabledRun
    /\ RanStep("enhance-external-sources")
    /\ RecommendGather \in Range(Report.recommendations)

TermsCalled == fnResult.fn = "extractSearchTerms"
\* the punctuation characters of ASCII (but for the quotation mark, the
\* backslash and the grave accent, which no text of the model holds)
PunctuationChars ==
    {"!", "#", "$", "%", "&", "'", "(", ")", "*", "+", ",", "-", ".", "/",
     ":", ";", "<", "=", ">", "?", "@", "[", "]", "^", "_", "{", "|",
     "}", "~"}
IsNotPunctuation(c) == c \notin PunctuationChars
IsLongToken(w) == Len(w) >= 3
\* the tokens of the lower-cased, punctuation-stripped, whitespace-split text
\* that are longer than two characters
LongTokens(text) ==
    SelectSeq(Words(SelectSeq(toLowerCase(text), IsNotPunctuation)), IsLongToken)

\* C15: extractSearchTerms returns the first at most 10 tokens longer than two
\* characters of the lower-cased, punctuation-stripped, whitespace-split query,
\* in order: each term has at least 3 characters and no upper-case letter or
\* punctuation, and there are at most 10 terms.
C15_SearchTerms ==
    TermsCalled =>
        LET terms == fnResult.value
            tokens == LongTokens(fnText)
        IN  /\ Len(terms) <= 10
            /\ terms = Slice(tokens, 1, Min(10, Len(tokens)))
            /\ \A k \in DOMAIN terms :
                  /\ Len(terms[k]) >= 3
                  /\ \A i \in DOMAIN terms[k] :
                        terms[k][i] \notin UpperCaseChars \cup PunctuationChars

\* what a run without a registered agent must look like once it has started
FailedAtFirstStep ==
    /\ pc = "failed"
    /\ Len(stepRuns) = 1
    /\ stepRuns[1].id = researchWorkflow[1]
    /\ stepRuns[1].status = "failed"
    /\ wfResult = [status |-> "failed", error |-> "Research agent not found"]
    /\ agentCalls = <<>>
    /\ externalCalls = <<>>

\* C16 as stated: a run without a registered agent fails in its first step with
\* "Research agent not found", before any agent call, and produces no report.
C16_Original ==
    (~agentRegistered /\ stepRuns # <<>>) => FailedAtFirstStep

\* C16: a run that has an input and no registered agent fails in its first step
\* with "Research agent not found", before any agent call, and produces no report.
C16_AgentMissing ==
    (~agentRegistered /\ ~IsUndefined(wfInput) /\ stepRuns # <<>>) => FailedAtFirstStep

\* a run with an input and no agent, after its first step
C16_Witness ==
    /\ ~agentRegistered
    /\ ~IsUndefined(wfInput)
    /\ wfInput.query # <<>>
    /\ stepRuns # <<>>

\* C17 (research workflow): a run with an empty query is rejected before any
\* agent call is made: it makes no agent call and ends failed in its first step.
C17_EmptyQueryRejected ==
    (~IsUndefined(wfInput) /\ wfInput.query = <<>>) =>
        /\ agentCalls = <<>>
        /\ stepRuns # <<>> => (pc = "failed" /\ Len(stepRuns) = 1)

\* the embedMany calls of the current run of the script
IsOfThisRun(call) == call.run = run
EmbedCallsOfRun == SelectSeq(embedCalls, IsOfThisRun)
StoreCallsOfRun == SelectSeq(storeCalls, IsOfThisRun)
IsUpsertCall(call) == call.method = "upsert"
LoopFinished == pc \in {"upsert", "done"}
TextsFrom(first, last) == [k \in 1..(last - first + 1) |-> docChunks[first + k - 1].text]

\* C18: the chunks are embedded in consecutive batches of at most 100, one
\* embedMany call per batch, and after the loop there is one vector per chunk,
\* vector k being the embedding of chunk k.
C18_BatchedEmbedding ==
    LET calls == EmbedCallsOfRun
        n == Len(docChunks)
    IN  /\ \A j \in DOMAIN calls :
              /\ Len(calls[j].values) \in 1..100
              /\ calls[j].values = TextsFrom(100 * (j - 1) + 1, Min(100 * j, n))
        /\ \A k \in DOMAIN allEmbeddings :
              k <= n /\ allEmbeddings[k] = Embedding(docChunks[k].text)
        /\ LoopFinished =>
              /\ Len(allEmbeddings) = n
              /\ Len(calls) = (n + 99) \div 100
              /\ \A j \in DOMAIN calls : calls[j].resolved

\* a document of 250 chunks embedded in three batches, the last one of 50
C18_Witness ==
    /\ LoopFinished
    /\ Len(docChunks) = 250
    /\ Len(EmbedCallsOfRun) = 3
    /\ Len(EmbedCallsOfRun[3].values) = 50
    /\ Len(allEmbeddings) = 250

\* C19: once embedMany has rejected for a batch, the run embeds no further batch,
\* calls neither createIndex nor upsert, and leaves the index as it was.
C19_AbortOnBatchFailure ==
    LET calls == EmbedCallsOfRun
    IN  /\ \A j \in DOMAIN calls : ~calls[j].resolved =>
              /\ j = Len(calls)
              /\ pc = "aborted"
              /\ StoreCallsOfRun = <<>>
        /\ pc = "aborted" =>
              /\ StoreCallsOfRun = <<>>
              /\ papers.created <=> storeCalls # <<>>
              /\ Cardinality(papers.records) =
                    Len(docChunks) * Len(SelectSeq(storeCalls, IsUpsertCall))

\* a run whose first two batches were embedded and whose third was rejected
C19_Witness ==
    /\ pc = "aborted"
    /\ Len(EmbedCallsOfRun) = 3
    /\ Len(allEmbeddings) = 200
    /\ papers = NoIndex

\* C20: the index holds the same records after the script has upserted the
\* chunks of the document a second time as after the first time: one record per
\* chunk, none twice.
C20_IdempotentUpsert ==
    pc = "done" =>
        LET n == Len(docChunks)
        IN  /\ Cardinality(papers.records) = n
            /\ \A k \in 1..n :
                  Cardinality({r \in papers.records :
                                 r.vector = Embedding(docChunks[k].text)}) = 1

\* what the agent answers when the index gave no results
NoRelevantInformation ==
    <<"N","o"," ","r","e","l","e","v","a","n","t"," ","i","n","f","o","r","m","a",
      "t","i","o","n"," ","f","o","u","n","d">>

\* C21: when retrieval gave nothing and the agent answers "No relevant
\* information found", step 1 ends without an error and does not report that
\* answer as a chunk with a source and a score.
C21_NoResultsSurfaced ==
    \A k \in DOMAIN stepRuns :
        (stepRuns[k].id = "execute-vector-search" /\ stepRuns[k].status = "success") =>
            \A c \in DOMAIN stepRuns[k].output.chunks :
                stepRuns[k].output.chunks[c].text # NoRelevantInformation

\* the number of characters in the first k chunks of a stream
RECURSIVE LengthOfFirst(_, _)
LengthOfFirst(stream, k) ==
    IF k = 0 THEN 0 ELSE LengthOfFirst(stream, k - 1) + Len(stream[k])
\* the whole text of a stream, character by character
WholeText(stream) ==
    [p \in 1..LengthOfFirst(stream, Len(stream)) |->
        LET k == CHOOSE n \in DOMAIN stream :
                    LengthOfFirst(stream, n - 1) < p /\ p <= LengthOfFirst(stream, n)
        IN  stream[k][p - LengthOfFirst(stream, k - 1)]]
SucceededStep(id) == RanStep(id) /\ RunOf(id).status = "success"

\* C22: steps 1 and 3 parse the whole text of the agent's stream, all chunks in
\* arrival order: the chunks of step 1 and the analysis of step 3 are those of
\* the whole text, never of a part of it.
C22_StreamDrained ==
    /\ SucceededStep("execute-vector-search") =>
          LET text == WholeText(agentReplies[1].stream)
              chunks == RunOf("execute-vector-search").output.chunks
          IN  /\ chunks = extractChunksFromResponse(text)
              /\ ~HasSourceMarker(text) => chunks[1].text = Slice(text, 1, Min(500, Len(text)))
    /\ SucceededStep("generate-research-report") =>
          LET text == WholeText(agentReplies[2].stream)
              analysis == parseAnalysisResponse(text)
          IN  /\ Report.summary = analysis.summary
              /\ Report.keyFindings = analysis.keyFindings
              /\ Report.thoughtProcess = analysis.thoughtProcess
              /\ Report.confidence = analysis.confidence
              /\ (text # <<>> /\ Occurrences(text, ThoughtMarker) = {}
                    /\ Occurrences(text, AnswerMarker) = {}) => Report.thoughtProcess = text

\* a run whose two replies came in several chunks each, the analysis labels
\* spread over the chunks
C22_Witness ==
    /\ ReportProduced
    /\ Len(agentReplies) = 2
    /\ Len(agentReplies[1].stream) = 2
    /\ Len(agentReplies[2].stream) = 2
    /\ Len(RunOf("execute-vector-search").output.chunks) = 2
    /\ Report.confidence = <<9, 10>>

\* the lines of a text that hold a source marker, and what a marker line names:
\* the rest of the line after its first marker
IsMarkerLine(line) == HasSourceMarker(line)
MarkerEnd(line) ==
    Len(SourceMarker) - 1 +
        CHOOSE p \in 1..Len(line) :
            /\ StartsAt(line, SourceMarker, p) \/ StartsAt(line, SourceMarkerCapital, p)
            /\ \A q \in 1..(p - 1) :
                  ~(StartsAt(line, SourceMarker, q) \/ StartsAt(line, SourceMarkerCapital, q))
NamedSource(line) == trim(Slice(line, MarkerEnd(line) + 1, Len(line)))

\* C28: for every line of the response that holds a source marker the result of
\* extractChunksFromResponse holds a chunk whose text is the following line and
\* whose source is the one the marker line names, in the order of the marker lines.
C28_MarkerChunks ==
    ExtractCalled =>
        LET lines == splitChar(fnText, "\n")
            markerLines == Ascending({i \in DOMAIN lines : IsMarkerLine(lines[i])})
            chunks == fnResult.value
        IN  /\ Len(chunks) >= Len(markerLines)
            /\ \A k \in DOMAIN markerLines :
                  /\ k <= Len(chunks)
                  /\ chunks[k].text =
                        (IF markerLines[k] < Len(lines)
                         THEN trim(lines[markerLines[k] + 1]) ELSE <<>>)
                  /\ chunks[k].source = NamedSource(lines[markerLines[k]])

\* C29: with both markers in the text (THOUGHT PROCESS: before FINAL ANSWER:,
\* each section with text) thoughtProcess is the reasoning section and summary,
\* findings and confidence are those of the answer section; with no marker or
\* only one of them the whole text is the reasoning section and the answer section.
C29_SectionSplit ==
    ParseCalled =>
        LET thought == Occurrences(fnText, ThoughtMarker)
            answer == Occurrences(fnText, AnswerMarker)
            parsed == fnResult.value
            FromAnswer(section) ==
                /\ parsed.summary = ExtractSummary(section)
                /\ parsed.keyFindings = ExtractKeyFindings(section)
                /\ parsed.confidence = ClampConfidence(ExtractConfidence(section))
        IN  /\ (thought = {} \/ answer = {}) =>
                  /\ parsed.thoughtProcess = fnText
                  /\ FromAnswer(fnText)
            /\ (Cardinality(thought) = 1 /\ Cardinality(answer) = 1) =>
                  LET t == CHOOSE p \in thought : TRUE
                      a == CHOOSE p \in answer : TRUE
                      reasoning == trim(Slice(fnText, t + Len(ThoughtMarker), a - 1))
                      final == trim(Slice(fnText, a + Len(AnswerMarker), Len(fnText)))
                  IN  (t < a /\ reasoning # <<>> /\ final # <<>>) =>
                          /\ parsed.thoughtProcess = reasoning
                          /\ FromAnswer(final)

\* C30: the query goes through the steps unchanged: the output of step 1 holds
\* the query and the topK of the run's input, the output of step 2 and the report
\* hold the same query, character for character.
C30_QueryPreserved ==
    /\ SucceededStep("execute-vector-search") =>
          /\ RunOf("execute-vector-search").output.query = wfInput.query
          /\ RunOf("execute-vector-search").output.topK = wfInput.topK
    /\ SucceededStep("enhance-external-sources") =>
          RunOf("enhance-external-sources").output.vectorResults.query = wfInput.query
    /\ ReportProduced => Report.query = wfInput.query

\* a report for a query with capitals and punctuation, which the search terms
\* extracted from it do not keep
C30_Witness ==
    /\ ReportProduced
    /\ wfInput.query # toLowerCase(wfInput.query)
    /\ wfInput.topK = 3
    /\ RunOf("enhance-external-sources").output.searchTerms # <<>>
    /\ \A k \in DOMAIN RunOf("enhance-external-sources").output.searchTerms :
          RunOf("enhance-external-sources").output.searchTerms[k] # wfInput.query

\* what the run x is when it runs alone: the outcomes of its steps, one after the
\* other, on its own input and its own replies
AloneSearch(x) == executeVectorSearch(x.input, agentRegistered, x.replies.search)
AloneEnhance(x) == enhanceWithExternalSources(AloneSearch(x).value)
AloneReport(x, now) ==
    generateResearchReport(AloneEnhance(x).value, agentRegistered, x.replies.analysis, now)

\* C23: two runs whose steps are interleaved share no state: at every point a run
\* is where it would be when run alone on its input and replies, it ends with the
\* same report (but for executedAt) or the same error, whatever the other run
\* does or fails with.
C23_NoSharedState ==
    \A e \in DOMAIN executions :
        LET x == executions[e]
        IN  /\ x.pc = "execute-vector-search" =>
                  x.stepInput = x.input /\ x.result = [status |-> "running"]
            /\ x.pc = "enhance-external-sources" =>
                  /\ AloneSearch(x).status = "success"
                  /\ x.stepInput = AloneSearch(x).value
                  /\ x.result = [status |-> "running"]
            /\ x.pc = "generate-research-report" =>
                  /\ AloneSearch(x).status = "success"
                  /\ x.stepInput = AloneEnhance(x).value
                  /\ x.result = [status |-> "running"]
            /\ x.pc = "failed" =>
                  IF AloneSearch(x).status = "failed"
                  THEN x.result = [status |-> "failed", error |-> AloneSearch(x).value]
                  ELSE \E now \in Timestamps :
                          /\ AloneReport(x, now).status = "failed"
                          /\ x.result = [status |-> "failed",
                                         error |-> AloneReport(x, now).value]
            /\ x.pc = "success" =>
                  /\ AloneSearch(x).status = "success"
                  /\ AloneReport(x, x.result.result.executedAt).status = "success"
                  /\ x.result.result = AloneReport(x, x.result.result.executedAt).value

\* one run has failed in its first step and the other one, for another request,
\* has ended with its report
C23_Witness ==
    /\ DOMAIN executions = {1, 2}
    /\ executions[1].pc = "failed"
    /\ ~executions[1].replies.search.ok
    /\ executions[2].pc = "success"
    /\ executions[2].input # executions[1].input

(***************************************************************************)
(* The chat route                                                          *)
(***************************************************************************)
DetectCalled == fnResult # NoCall /\ fnResult.fn = "detectWeatherQuery"
Answered == "status" \in DOMAIN response

\* the text a message content carries: a string itself, the text parts of an
\* array; anything else carries none
TextContent(content) ==
    IF content.kind = "string" THEN content.value
    ELSE IF content.kind = "array"
    THEN LET isText(k) == /\ content.items[k].kind = "object"
                          /\ "type" \in DOMAIN content.items[k].fields
                          /\ content.items[k].fields.type = Str(<<"t","e","x","t">>)
             texts == [k \in {k \in DOMAIN content.items : isText(k)} |->
                          content.items[k].fields.text.value]
             Glue[k \in 0..Len(content.items)] ==
                 IF k = 0 THEN <<>>
                 ELSE IF k \notin DOMAIN texts THEN Glue[k - 1]
                 ELSE IF \E j \in DOMAIN texts : j < k THEN Glue[k - 1] \o <<" ">> \o texts[k]
                 ELSE texts[k]
         IN  Glue[Len(content.items)]
    ELSE <<>>
NamesWeather(text) ==
    \E k \in DOMAIN WEATHER_KEYWORDS : Occurrences(toLowerCase(text), WEATHER_KEYWORDS[k]) # {}
LastNamesWeather(messages) ==
    /\ messages.kind = "array"
    /\ messages.items # <<>>
    /\ LET last == messages.items[Len(messages.items)]
       IN  /\ last.kind = "object"
           /\ "content" \in DOMAIN last.fields
           /\ NamesWeather(TextContent(last.fields.content))

\* C24: detectWeatherQuery(messages) is true exactly when messages is a
\* non-empty array whose last message has text content that contains one of
\* the weather keywords in any letter case; a missing, non-array or empty
\* messages value and a last message without content give false, and the
\* earlier messages have no part in the result.
C24_WeatherDetected ==
    DetectCalled => (fnResult.value <=> LastNamesWeather(request.messages))

\* a weather question in capitals after a message about something else
C24_Witness ==
    /\ DetectCalled
    /\ fnResult.value
    /\ request.messages.kind = "array"
    /\ Len(request.messages.items) = 2
    /\ ~LastNamesWeather(Arr(<<request.messages.items[1]>>))
    /\ \E p \in 1..Len(TextContent(request.messages.items[2].fields.content)) :
          StartsAt(TextContent(request.messages.items[2].fields.content),
                   <<"W","e","a","t","h","e","r">>, p)

\* a request the route can serve: an available agent or none named, and a
\* list of message objects
ValidRequest ==
    /\ request.agent # Undefined => request.agent.name \in AVAILABLE_AGENTS
    /\ request.messages.kind = "array"
    /\ \A k \in DOMAIN request.messages.items : request.messages.items[k].kind = "object"
RequestedAgent ==
    IF request.agent = Undefined THEN "researchAgent" ELSE request.agent.name

\* C25: every valid request is forwarded to the agent named by its agent
\* parameter, researchAgent when the parameter is omitted: the agent that
\* receives the messages is the one the client selected.
C25_ForwardedToSelected ==
    (Answered /\ ValidRequest) => response.forwardedTo = RequestedAgent

\* C26: a request whose agent parameter is not one of the available agents
\* gets a 400 response and is forwarded to no agent, whatever its messages
\* contain.
C26_InvalidAgentRejected ==
    (Answered /\ request.agent # Undefined /\ request.agent.name \notin AVAILABLE_AGENTS)
        => (response.status = 400 /\ response.forwardedTo = NotForwarded)

(***************************************************************************)
(* weatherWorkflowTool                                                     *)
(***************************************************************************)
ToolSucceeded == "status" \in DOMAIN toolResult /\ toolResult.status = "success"
FetchedForecast ==
    stepRuns[CHOOSE k \in DOMAIN stepRuns : stepRuns[k].id = "fetch-weather"].output

\* C27: the forecast returned by weatherWorkflowTool is the one the
\* fetch-weather step computed for the location (maxTemp, minTemp,
\* precipitationChance and condition), and it agrees with the activities
\* text returned with it.
C27_ForecastOfWorkflow ==
    ToolSucceeded =>
        LET returned == toolResult.value.forecast
            activities == toolResult.value.activities
        IN  /\ returned.maxTemp = FetchedForecast.maxTemp
            /\ returned.minTemp = FetchedForecast.minTemp
            /\ returned.precipitationChance = FetchedForecast.precipitationChance
            /\ returned.condition = FetchedForecast.condition
            /\ activities.maxTemp = returned.maxTemp
            /\ activities.minTemp = returned.minTemp
            /\ activities.precipitationChance = returned.precipitationChance
            /\ activities.condition = returned.condition

====
